---- MODULE Spec2Model ----
(***************************************************************************)
(* Model of the diagram-to-triple extraction engine of ai4mbse             *)
(* (src/controller/tmx.py, class SysMLParser) and of its caller            *)
(* parse_tmx (src/utils.py).                                               *)
(*                                                                         *)
(* Text.  A Python string is a sequence of chunks.  Every character the    *)
(* code strips, splits on or replaces ("<", ">", ":", ".", "~", " ", "T",  *)
(* "trufun", "Connection") is a chunk of its own, so strip / split /       *)
(* replace act on whole chunks.  String literals of the source that are    *)
(* not ASCII are written by their English reading; the line of the source  *)
(* literal is given next to each.  Python None is the value NoneVal.       *)
(*                                                                         *)
(* Documents.  A document is a flag (well-formed or not), and the sequence *)
(* of the elements below the root in document order.  Each such element    *)
(* has a tag, attributes, a sequence of nested <nodes> in pre-order (field *)
(* parent: 0 for a direct child, else the index of the enclosing node) and *)
(* a sequence of direct <connections> children.                            *)
(***************************************************************************)
EXTENDS Integers, Sequences, FiniteSets, TLC

\* ------------------------------------------------------------------ bounds
MaxDiagrams == 2        \* elements below the root of a document
MaxSeed == 1            \* per-process hash seeds are 0..MaxSeed
MaxRerunDiagrams == 1   \* elements below the root when a document is run twice
MaxCalls == 2           \* calls of triples_to_graph_json on one parser

\* ------------------------------------------------------------- text model
NoneVal == <<"<None>">>

Truthy(s) == s # NoneVal /\ s # <<>>

RECURSIVE LStripChars(_, _)
LStripChars(s, cs) ==
    IF s # <<>> /\ Head(s) \in cs THEN LStripChars(Tail(s), cs) ELSE s

RECURSIVE RStripChars(_, _)
RStripChars(s, cs) ==
    IF s # <<>> /\ s[Len(s)] \in cs
    THEN RStripChars(SubSeq(s, 1, Len(s) - 1), cs) ELSE s

\* str.strip(chars)
StripChars(s, cs) == RStripChars(LStripChars(s, cs), cs)

\* str.strip()
Strip(s) == StripChars(s, {" "})

\* str.lstrip(chars)
LStrip(s, cs) == LStripChars(s, cs)

\* str.replace(c, "") for a one-chunk c
Replace(s, c) == SelectSeq(s, LAMBDA x : x # c)

\* str.replace(pat, "") for a pattern of two chunks
RECURSIVE Replace2(_, _)
Replace2(s, pat) ==
    IF Len(s) < 2 THEN s
    ELSE IF SubSeq(s, 1, 2) = pat THEN Replace2(SubSeq(s, 3, Len(s)), pat)
    ELSE <<Head(s)>> \o Replace2(Tail(s), pat)

Contains(s, c) == \E i \in DOMAIN s : s[i] = c

\* s.split(sep)[-1]
RECURSIVE SplitLast(_, _)
SplitLast(s, sep) ==
    IF Contains(s, sep)
    THEN SplitLast(SubSeq(s, (CHOOSE i \in DOMAIN s : s[i] = sep /\
                                 \A j \in DOMAIN s : s[j] = sep => j <= i) + 1,
                          Len(s)), sep)
    ELSE s

\* s.split(sep)[0]
SplitFirst(s, sep) ==
    IF Contains(s, sep)
    THEN SubSeq(s, 1, (CHOOSE i \in DOMAIN s : s[i] = sep /\
                          \A j \in DOMAIN s : s[j] = sep => i <= j) - 1)
    ELSE s

\* The xmi namespace URI of the documents, and the key load_xml stores it under.
XMI_URI == <<"http://www.omg.org/XMI">>

\* --------------------------------------------------------- source literals
\* The string literals of the source are written where the source writes them.
\* "trufun:T<rest>"
Trufun(rest) == <<"trufun", ":", "T">> \o rest

\* ------------------------------------------------------- document elements
\* A <nodes> element.
Node(id, xt, name) ==
    [parent |-> 0, id |-> id, name |-> name, xmiType |-> xt,
     stereotype |-> NoneVal, type |-> NoneVal, owner |-> NoneVal,
     modelElement |-> NoneVal, subLabels |-> <<>>, stereotypeNodes |-> <<>>]

\* A <connections> element; paletteEntry is the value attribute of its
\* eAnnotations/details[@key='palette_entry_id'] child (NoneVal: no such child).
Conn(id, xt, src, tgt) ==
    [id |-> id, name |-> NoneVal, source |-> src, target |-> tgt,
     stereotype |-> NoneVal, xmiType |-> xt, type |-> NoneVal,
     subLabels |-> <<>>, paletteEntry |-> NoneVal]

\* A <subLabels> element.
SubLabel(alias, name) == [alias |-> alias, name |-> name]

\* An element below the root.  connections are its <connections> children;
\* nestedConnections are the <connections> elements inside its nodes, each the
\* first child of the node at position parent.
Elem(tag, st, xt, nodes, conns) ==
    [tag |-> tag, id |-> <<"e">>, name |-> <<"Diagram">>, stereotype |-> st,
     xmiType |-> xt, nodes |-> nodes, connections |-> conns, nestedConnections |-> <<>>]

N1 == <<"n1">>
N2 == <<"n2">>
N3 == <<"n3">>
N4 == <<"n4">>
N5 == <<"n5">>
CId == <<"c1">>
\* an ID that no element of the document carries
AbsentId == <<"x">>

Derive == <<"<", "<", "derive", ">", ">">>
ImportMark == <<"<", "<", "import", ">", ">">>

EndpointPatterns == {"both", "srcAbsent"}
Src(e) == IF e = "both" THEN N1 ELSE AbsentId

ReqNodes ==
    << [Node(N1, Trufun(<<"ModelElementNode">>), <<"R1">>) EXCEPT !.stereotype = <<"<", "<", "requirement", ">", ">">>],
       [Node(N2, Trufun(<<"ModelElementNode">>), <<"R2">>) EXCEPT !.stereotype = <<"<", "<", "requirement", ">", ">">>] >>
ReqConn(e) == [Conn(CId, Trufun(<<"Dependency", "Connection">>), Src(e), N2) EXCEPT !.stereotype = Derive]
ReqTemplate(e) == Elem("contents", <<"SysmlRequirementDiagram">>, Trufun(<<"Diagram">>), ReqNodes, <<ReqConn(e)>>)

IbdNodes ==
    << Node(N1, Trufun(<<"StructureClassNode">>), <<"Engine">>),
       [Node(N2, Trufun(<<"ModelElementNode">>), <<":", " ", "pump">>) EXCEPT !.parent = 1, !.type = <<"SysML", ".", "IBD", ".", "PartProperty">>] >>
IbdTemplate ==
    Elem("contents", <<"SysmlInternalBlockDiagram">>, Trufun(<<"Diagram">>), IbdNodes,
         << [Conn(CId, Trufun(<<"ModelElement", "Connection">>), N1, N2) EXCEPT !.type = <<"SysML", ".", "IBD", ".", "Connector">>] >>)

BddNodes ==
    << [Node(N1, Trufun(<<"ModelElementNode">>), <<"Engine">>) EXCEPT !.stereotype = <<"<", "<", "block", ">", ">">>],
       [Node(N2, Trufun(<<"ModelElementNode">>), <<"Wheel">>) EXCEPT !.stereotype = <<"<", "<", "block", ">", ">">>] >>
BddTemplate ==
    Elem("contents", <<"SysmlBlockDiagram">>, Trufun(<<"Diagram">>), BddNodes,
         << Conn(CId, Trufun(<<"Generalize", "Connection">>), N1, N2) >>)

UsecaseTemplate ==
    Elem("contents", NoneVal, Trufun(<<"UsecaseDiagram">>),
         << Node(N1, Trufun(<<"UseCaseNode">>), <<"Drive">>),
            [Node(N2, Trufun(<<"ModelElementNode">>), <<"Driver">>) EXCEPT !.stereotype = <<"<", "<", "block", ">", ">">>] >>,
         << Conn(CId, Trufun(<<"Association", "Connection">>), N2, N1) >>)

ActivityTemplate ==
    Elem("contents", NoneVal, Trufun(<<"ActivityDiagram">>),
         << Node(N1, Trufun(<<"InitialNode">>), NoneVal), Node(N2, Trufun(<<"ActionNode">>), <<"Start">>) >>,
         << Conn(CId, Trufun(<<"ControlFlow", "Connection">>), N1, N2) >>)

ClassTemplate(e) ==
    Elem("contents", NoneVal, Trufun(<<"ClassDiagram">>),
         << Node(N1, Trufun(<<"ClassNode">>), <<"Engine">>), Node(N2, Trufun(<<"ClassNode">>), <<"Wheel">>) >>,
         << Conn(CId, Trufun(<<"Association", "Connection">>), Src(e), N2) >>)

StateTemplate ==
    Elem("contents", <<"SysMLStateDiagram">>, Trufun(<<"StateMachineDiagram">>),
         << Node(N1, Trufun(<<"InitialStateNode">>), NoneVal), Node(N2, Trufun(<<"CompositeStateNode">>), <<"Idle">>) >>,
         << Conn(CId, Trufun(<<"T", "ransition", "Connection">>), N1, N2) >>)

SequenceTemplate ==
    Elem("contents", <<"SysMLSequenceDiagram">>, Trufun(<<"SequenceDiagram">>),
         << Node(N1, Trufun(<<"InteractionNode">>), <<"Interaction">>),
            [Node(N2, Trufun(<<"LifelineNode_SD">>), <<"L1">>) EXCEPT !.parent = 1],
            [Node(N3, Trufun(<<"EventOccurrenceNode">>), NoneVal) EXCEPT !.parent = 2],
            [Node(N4, Trufun(<<"LifelineNode_SD">>), <<"L2">>) EXCEPT !.parent = 1],
            [Node(N5, Trufun(<<"EventOccurrenceNode">>), NoneVal) EXCEPT !.parent = 4] >>,
         << [Conn(CId, Trufun(<<"MessageConnection_SD">>), N3, N5) EXCEPT !.name = <<"msg">>] >>)

PkgNodes == << Node(N1, Trufun(<<"PackageNode">>), <<"P1">>), Node(N2, Trufun(<<"PackageNode">>), <<"P2">>) >>
PkgConn(e) ==
    [Conn(CId, Trufun(<<"Realization", "Connection">>), Src(e), N2)
        EXCEPT !.type = <<"PackageImport">>,
               !.subLabels = << SubLabel(<<"FixedName">>, ImportMark) >>]
\* line 1414 of tmx.py: a package diagram may carry xmi:type TClassDiagram
PackageTemplate(e, xt) == Elem("contents", <<"SysMlPackageDiagram">>, xt, PkgNodes, <<PkgConn(e)>>)

ParamNodes ==
    << [Node(N1, Trufun(<<"ModelElementNode">>), <<"c">>) EXCEPT !.type = <<"SysML", ".", "IBD", ".", "ConstraintProperty">>],
       [Node(N2, Trufun(<<"PortNode">>), <<"p">>) EXCEPT !.parent = 1,
                                              !.stereotype = <<"<", "<", "constraintParameter", ">", ">">>] >>
ParametricTemplate(marker) ==
    Elem("contents", <<"SysmlParameterDiagram">>, Trufun(<<"CompositeStructureDiagram">>), ParamNodes,
         << [Conn(CId, Trufun(<<"ModelElement", "Connection">>), N2, N1)
                EXCEPT !.paletteEntry = marker] >>)

\* Elements whose stereotype names one kind and whose xmi:type names another.
MixedSignalTemplates ==
    { Elem("contents", <<"SysmlBlockDiagram">>, Trufun(<<"ClassDiagram">>), BddNodes,
           << Conn(CId, Trufun(<<"Generalize", "Connection">>), N1, N2) >>),
      Elem("contents", <<"SysmlRequirementDiagram">>, Trufun(<<"ClassDiagram">>), ReqNodes, <<ReqConn("both")>>) }

\* Elements that no extractor recognises.
UnmatchedTemplates ==
    { Elem("contents", NoneVal, Trufun(<<"Diagram">>), BddNodes, << Conn(CId, Trufun(<<"Generalize", "Connection">>), N1, N2) >>),
      Elem("packagedElement", <<"SysmlRequirementDiagram">>, Trufun(<<"Diagram">>), ReqNodes, <<ReqConn("both")>>) }

\* Well-formed shapes with an attribute or a child left out.
SparseTemplates ==
    { \* a node with an ID and no xmi:type
      Elem("contents", <<"SysmlInternalBlockDiagram">>, Trufun(<<"Diagram">>),
           << Node(N1, NoneVal, <<"Engine">>), Node(N2, Trufun(<<"PortNode">>), <<"p">>) >>,
           << Conn(CId, Trufun(<<"Diagram">>), N1, N2) >>),
      \* a package connection with no xmi:type
      Elem("contents", <<"SysMlPackageDiagram">>, Trufun(<<"Diagram">>), PkgNodes,
           << [PkgConn("both") EXCEPT !.xmiType = NoneVal] >>),
      \* an identified connection, unnamed, whose Name sub-label has no name
      Elem("contents", <<"SysmlBlockDiagram">>, Trufun(<<"Diagram">>), BddNodes,
           << [Conn(CId, Trufun(<<"Generalize", "Connection">>), N1, N2)
                  EXCEPT !.subLabels = << SubLabel(<<"Name">>, NoneVal) >>] >>),
      \* a connection without a source attribute
      Elem("contents", <<"SysmlRequirementDiagram">>, Trufun(<<"Diagram">>), ReqNodes,
           << [ReqConn("both") EXCEPT !.source = NoneVal] >>) }

Templates ==
    { ReqTemplate(e) : e \in EndpointPatterns }
    \cup { ClassTemplate(e) : e \in EndpointPatterns }
    \cup { PackageTemplate(e, xt) : e \in EndpointPatterns, xt \in {Trufun(<<"Diagram">>), Trufun(<<"ClassDiagram">>)} }
    \cup { ParametricTemplate(m) : m \in {<<"SysML", ".", "IBD", ".", "BindingConnector">>, NoneVal} }
    \cup { IbdTemplate, BddTemplate, UsecaseTemplate, ActivityTemplate,
           StateTemplate, SequenceTemplate }
    \cup MixedSignalTemplates \cup UnmatchedTemplates \cup SparseTemplates

\* IDs are unique in a document: the k-th element prefixes its IDs with k.
Qualify(k, id) ==
    IF id = NoneVal \/ id = AbsentId \/ id = <<>> THEN id ELSE <<ToString(k)>> \o id

Place(k, t) ==
    [t EXCEPT
        !.id = Qualify(k, @),
        !.nodes = [i \in DOMAIN @ |->
                      [@[i] EXCEPT !.id = Qualify(k, @), !.owner = Qualify(k, @)]],
        !.connections = [i \in DOMAIN @ |->
                      [@[i] EXCEPT !.id = Qualify(k, @), !.source = Qualify(k, @),
                                   !.target = Qualify(k, @)]],
        !.nestedConnections = [i \in DOMAIN @ |->
                      [@[i] EXCEPT !.conn.id = Qualify(k, @), !.conn.source = Qualify(k, @),
                                   !.conn.target = Qualify(k, @)]]]

ElementSeqs(n) ==
    UNION { { [k \in 1..len |-> Place(k, ts[k])] : ts \in [1..len -> Templates] } : len \in 1..n }

\* Namespace declarations of the root element, as (prefix, uri) pairs.
NsDecls == << << <<"xmi">>, XMI_URI >>, << <<"trufun">>, <<"http://www.trufun.net">> >> >>

\* The texts handed to the parser: well-formed documents, and texts that stop
\* being XML after the elements shown.
Documents(n) ==
    { [wellFormed |-> TRUE, nsDecls |-> NsDecls, elements |-> es] : es \in ElementSeqs(n) }
    \cup { [wellFormed |-> FALSE, nsDecls |-> NsDecls, elements |-> es] : es \in ElementSeqs(1) }

\* Well-formed documents of 1..n elements drawn from the set tpls.
ElementSeqsFrom(tpls, n) ==
    UNION { { [k \in 1..len |-> Place(k, ts[k])] : ts \in [1..len -> tpls] } : len \in 1..n }

WellFormedDocuments(tpls, n) ==
    { [wellFormed |-> TRUE, nsDecls |-> NsDecls, elements |-> es] : es \in ElementSeqsFrom(tpls, n) }

\* Diagrams of three kinds next to elements that no extractor recognises.
SkipTemplates ==
    UnmatchedTemplates \cup { ReqTemplate("both"), ClassTemplate("srcAbsent"), BddTemplate }

\* Template t with the stereotype, type and xmi:type of its first connection set.
WithConnAttrs(t, st, ty, xt) ==
    [t EXCEPT !.connections[1] = [@ EXCEPT !.stereotype = st, !.type = ty, !.xmiType = xt]]

SatisfyType == <<"SysML", ".", "Req", ".", "Satisfy">>

\* (stereotype, type, xmi:type) of a connection: each row lacks the first
\* attribute that the row before it has.
ConnAttrRows ==
    { << Derive, SatisfyType, Trufun(<<"Dependency", "Connection">>) >>,
      << NoneVal, SatisfyType, Trufun(<<"Dependency", "Connection">>) >>,
      << NoneVal, NoneVal, Trufun(<<"Dependency", "Connection">>) >>,
      << NoneVal, NoneVal, NoneVal >> }

\* One diagram of each kind whose extractor computes a label from these attributes.
RelationTemplates ==
    { WithConnAttrs(t, r[1], r[2], r[3]) :
        t \in { ReqTemplate("both"), IbdTemplate, BddTemplate, UsecaseTemplate,
                ActivityTemplate, ClassTemplate("both") },
        r \in ConnAttrRows }

\* State-machine diagrams whose transition differs in name, stereotype,
\* sub-labels and xmi:type.
StateMachineTemplates ==
    { [StateTemplate EXCEPT !.connections[1] =
          [@ EXCEPT !.name = nm, !.stereotype = st, !.subLabels = subs, !.xmiType = xt]] :
        nm \in { NoneVal, <<"go">> },
        st \in { NoneVal, Derive },
        subs \in { <<>>, << SubLabel(<<"Guard">>, <<"x > 0">>) >>,
                   << SubLabel(<<"Guard">>, NoneVal) >>, << SubLabel(<<"Name">>, <<"go">>) >> },
        xt \in { Trufun(<<"T", "ransition", "Connection">>), Trufun(<<"Dependency", "Connection">>) } }

\* Parametric diagrams of two connections; each differs in its
\* palette_entry_id detail and in having a source and a target.
C2Id == <<"c2">>
BindingTemplates ==
    { [ParametricTemplate(m) EXCEPT !.connections =
          << [@[1] EXCEPT !.source = s, !.target = t],
             [@[1] EXCEPT !.id = C2Id, !.paletteEntry = second[1], !.target = second[2],
                          !.stereotype = second[3]] >>] :
        m \in { <<"SysML", ".", "IBD", ".", "BindingConnector">>,
                <<"SysML", ".", "IBD", ".", "Connector">>, NoneVal },
        s \in { N2, NoneVal },
        t \in { N1, NoneVal },
        second \in { << <<"SysML", ".", "IBD", ".", "BindingConnector">>, N1, <<"<", "<", "equal", ">", ">">> >>,
                     << NoneVal, N1, NoneVal >>,
                     << <<"SysML", ".", "IBD", ".", "BindingConnector">>, NoneVal, NoneVal >> } }

\* The nodes of one lifeline placed at position at of a diagram: the lifeline,
\* a chain of activation bars nested one in the other, and an event occurrence
\* inside the innermost.
SeqLifeline(at, lid, name, owner, bars, eid) ==
    << [Node(lid, Trufun(<<"LifelineNode_SD">>), name) EXCEPT !.parent = 1, !.owner = owner] >>
    \o [j \in 1..Len(bars) |->
          [Node(bars[j], IF j = 1 THEN Trufun(<<"InvocationSpecificationNode">>)
                         ELSE Trufun(<<"ExecutionSpecificationNode">>), NoneVal)
             EXCEPT !.parent = at + j - 1]]
    \o << [Node(eid, Trufun(<<"EventOccurrenceNode">>), NoneVal) EXCEPT !.parent = at + Len(bars)] >>

\* Sequence diagrams of two lifelines and one message; they differ in the
\* depth of the event occurrences, in how the second lifeline is named and in
\* the direction of the message.
SequenceTemplates ==
    { [SequenceTemplate EXCEPT
          !.nodes = << Node(N1, Trufun(<<"InteractionNode">>), <<"Interaction">>) >>
                    \o SeqLifeline(2, N2, <<"L1">>, NoneVal, bars[1], N3)
                    \o SeqLifeline(4 + Len(bars[1]), N4, l2[1], l2[2], bars[2], N5),
          !.connections[1] = [@ EXCEPT !.source = ends[1], !.target = ends[2]]] :
        bars \in { << <<>>, <<>> >>, << << <<"b1">> >>, <<>> >>,
                   << << <<"b1">>, <<"b2">> >>, << <<"b3">> >> >>,
                   << <<>>, << <<"b3">>, <<"b4">> >> >> },
        l2 \in { << <<"L2">>, NoneVal >>, << NoneVal, N1 >>, << NoneVal, NoneVal >>,
                 << NoneVal, AbsentId >> },
        ends \in { <<N3, N5>>, <<N5, N3>> } }

\* Package diagrams whose connection differs in its type attribute, its
\* FixedName sub-label, its stereotype and its xmi:type.
ImportTemplates ==
    { [PackageTemplate("both", Trufun(<<"Diagram">>)) EXCEPT !.connections[1] =
          [@ EXCEPT !.type = ty, !.subLabels = subs, !.stereotype = st, !.xmiType = xt]] :
        ty \in { <<"ElementImport">>, <<"PackageImport">>, <<"PackageMerge">>, NoneVal },
        subs \in { <<>>, << SubLabel(<<"FixedName">>, ImportMark) >>,
                   << SubLabel(<<"FixedName">>, NoneVal) >>,
                   << SubLabel(<<"FixedName">>, <<" ">>) >> },
        st \in { NoneVal, Derive },
        xt \in { Trufun(<<"Realization", "Connection">>), Trufun(<<"Dependency", "Connection">>) } }

\* One diagram of each kind that parse_all extracts, as it is and with the
\* node at the target of its connection turned into a node of a type that no
\* extractor has a rule for, named or not.
WithTargetNode(t, xt, name) ==
    [t EXCEPT !.nodes = [q \in DOMAIN @ |->
        IF @[q].id = t.connections[1].target
        THEN [@[q] EXCEPT !.xmiType = xt, !.name = name, !.stereotype = NoneVal, !.type = NoneVal]
        ELSE @[q]]]
OtherNodeTemplates ==
    LET kinds == { ReqTemplate("both"), IbdTemplate, BddTemplate, UsecaseTemplate,
                   ActivityTemplate, ClassTemplate("both"), StateTemplate,
                   PackageTemplate("both", Trufun(<<"Diagram">>)),
                   ParametricTemplate(<<"SysML", ".", "IBD", ".", "BindingConnector">>) }
    IN  kinds \cup { WithTargetNode(t, Trufun(<<"HyperlinkNode">>), name) :
                       t \in kinds, name \in { <<"Drive">>, NoneVal } }

\* Requirement diagrams whose second node differs in what the index pass
\* reads: its name, its stereotypeNodes child, its Name sub-label, its xmi:type.
IndexTemplates ==
    { [ReqTemplate("both") EXCEPT !.nodes[2] =
          [@ EXCEPT !.name = nm, !.stereotypeNodes = sts, !.subLabels = subs, !.xmiType = xt]] :
        nm \in { <<"R2">>, NoneVal },
        sts \in { <<>>, << [name |-> <<"<", "<", "block", ">", ">">>] >>, << [name |-> NoneVal] >> },
        subs \in { <<>>, << SubLabel(<<"Name">>, <<"Alias">>) >>,
                   << SubLabel(<<"Name">>, NoneVal) >>, << SubLabel(<<"FixedName">>, <<"Alias">>) >> },
        xt \in { Trufun(<<"ModelElementNode">>), NoneVal } }

\* Lists of xmlns declarations in document order, each with the depth of the
\* element that carries it (0: the root): xmi and trufun at the root, then
\* a default namespace at the root or deeper, a prefix declared below the
\* root only, once or twice, and the xmi prefix declared again with its URI.
NsDeclLists ==
    { << << <<"xmi">>, XMI_URI, 0 >>, << <<"trufun">>, <<"http://www.trufun.net">>, 0 >> >>
      \o dflt \o uml \o again :
        dflt \in { <<>>, << << <<>>, <<"http://d">>, 0 >> >>, << << <<>>, <<"http://d">>, 2 >> >> },
        uml \in { <<>>, << << <<"uml">>, <<"http://uml">>, 1 >> >>,
                  << << <<"uml">>, <<"http://uml">>, 1 >>, << <<"uml">>, <<"http://uml">>, 3 >> >>,
                  << << <<"uml">>, <<"http://uml">>, 1 >>, << <<"uml">>, <<"http://uml2">>, 2 >> >> },
        again \in { <<>>, << << <<"xmi">>, XMI_URI, 2 >> >> } }

NamespaceDocuments(tpls, n) ==
    { [wellFormed |-> TRUE, nsDecls |-> ds, elements |-> es] :
        ds \in NsDeclLists, es \in ElementSeqsFrom(tpls, n) }

\* One diagram of each kind that parse_all extracts.
KindTemplates ==
    { ReqTemplate("both"), IbdTemplate, BddTemplate, UsecaseTemplate, ActivityTemplate,
      ClassTemplate("both"), StateTemplate, PackageTemplate("both", Trufun(<<"Diagram">>)),
      ParametricTemplate(<<"SysML", ".", "IBD", ".", "BindingConnector">>) }

\* Documents of two diagrams A and B in which the source of B's connection is
\* the ID of a node of A, a node that B does not contain.
CrossDocuments ==
    { [wellFormed |-> TRUE, nsDecls |-> NsDecls,
       elements |-> << Place(1, a),
                       [Place(2, b) EXCEPT !.connections[1].source = Qualify(1, a.nodes[q].id)] >>] :
        a \in KindTemplates, b \in KindTemplates, q \in 1..2 }

\* the ID of a connection nested in a node
C9Id == <<"c9">>

\* t with a <connections> element inside its q-th node: t's own connection
\* with its two ends exchanged; direct tells whether t keeps its own connection
WithNestedConnection(t, q, direct) ==
    [t EXCEPT !.nestedConnections =
                  << [parent |-> q,
                      conn |-> [t.connections[1] EXCEPT !.id = C9Id,
                                                        !.source = t.connections[1].target,
                                                        !.target = t.connections[1].source]] >>,
              !.connections = IF direct THEN @ ELSE <<>>]

NestedTemplates ==
    { WithNestedConnection(t, q, direct) :
        t \in KindTemplates \cup {SequenceTemplate}, q \in 1..2, direct \in BOOLEAN }

\* the ID of the diagram element itself, which the index maps to "Diagram"
EId == <<"e">>

\* One diagram of each kind, the sequence diagram included, in which the node
\* at the target of the connection (in a sequence diagram: the lifeline of the
\* target event occurrence) has no name and an owner attribute: the ID of an
\* element with an indexed name, an ID that no element carries, or none.  The
\* node keeps its type or is of a type that no extractor has a rule for.
WithOwnedTarget(t, own) ==
    [t EXCEPT !.nodes = [q \in DOMAIN @ |->
        IF @[q].id = t.connections[1].target
        THEN [@[q] EXCEPT !.name = NoneVal, !.owner = own]
        ELSE @[q]]]

OwnerTemplates ==
    { WithOwnedTarget(t, own) :
        t \in KindTemplates \cup { WithTargetNode(k, Trufun(<<"HyperlinkNode">>), NoneVal) :
                                     k \in KindTemplates },
        own \in { EId, AbsentId, NoneVal } }
    \cup { [SequenceTemplate EXCEPT !.nodes[4].name = NoneVal, !.nodes[4].owner = own] :
             own \in { EId, AbsentId, NoneVal } }

\* One diagram of each kind with a second connection, before or after its
\* own, that has no source attribute, an empty one, or no target attribute.
LackingTemplates ==
    { [t EXCEPT !.connections =
          LET lacking == [t.connections[1] EXCEPT !.id = C2Id, !.source = ends[1], !.target = ends[2]]
          IN  IF first THEN << lacking, t.connections[1] >> ELSE << t.connections[1], lacking >>] :
        t \in KindTemplates,
        ends \in { <<NoneVal, N2>>, << <<>>, N2 >>, <<N1, NoneVal>> },
        first \in BOOLEAN }

\* ------------------------------------------------------------------- state
VARIABLES
    file_content,           \* the text handed to SysMLParser
    pc,                     \* position of the process in parse_tmx / parse_all
    seed,                   \* hash seed of this Python process
    root,                   \* self.root
    namespaces,             \* self.namespaces
    model_elements_by_id,   \* self._model_elements_by_id
    triples,                \* self.triples
    origin,                 \* for each triple: the extractor, element and connection it came from
    dispatched,             \* (extractor, element index) pairs the extractors have entered
    graph,                  \* value returned by triples_to_graph_json
    label,                  \* the label argument of that call
    calls,                  \* number of calls of triples_to_graph_json so far
    output,                 \* contents of the output file
    error,                  \* the exception that ended the process
    run,                    \* 1 for the first process run on the text, 2 for the second
    prevSeed,               \* hash seed of the first run
    prevTriples,            \* self.triples at the end of the first run
    prevOutput,             \* output file of the first run
    raw_name,               \* the argument of safe_name
    safe,                   \* the value safe_name returned
    applications,           \* number of times safe_name was applied, each to the last result
    document,               \* the triples argument of import_triples
    nodes,                  \* the nodes of the graph store, in the order of their creation
    edges,                  \* the relationships of the graph store
    imports,                \* number of import_triples calls that have returned
    import_error,           \* the exception that ended the last import_triples call
    content,                \* the content argument of extract_requirement_triples, as its lines
    paragraphs,             \* the list split_paragraphs returned
    tasks,                  \* the windows handed to the LLM
    llm_results,            \* what the LLM returned for each window
    output_triples,         \* the triples collected from the windows
    extract_pc              \* position in extract_requirement_triples

Seeds == 0..MaxSeed

EmptyMap == [x \in {} |-> <<>>]

\* the state of a SysMLParser process
parserVars == << file_content, pc, seed, root, namespaces, model_elements_by_id, triples,
                 origin, dispatched, graph, label, calls, output, error, run, prevSeed,
                 prevTriples, prevOutput >>

\* the state of the callers of src/controller/graph.py and src/chat/triple.py
callerVars == << raw_name, safe, applications, document, nodes, edges, imports,
                 import_error, content, paragraphs, tasks, llm_results, output_triples,
                 extract_pc >>

vars == << parserVars, callerVars >>

\* import_triples has not been called and the store is empty
StoreIdle ==
    /\ document = [hasTriples |-> FALSE, triples |-> <<>>]
    /\ nodes = <<>>
    /\ edges = EmptyMap
    /\ imports = 0
    /\ import_error = ""

\* extract_requirement_triples has not been called
ExtractIdle ==
    /\ content = <<>>
    /\ paragraphs = <<>>
    /\ tasks = <<>>
    /\ llm_results = <<>>
    /\ output_triples = <<>>
    /\ extract_pc = "none"

\* no function of graph.py or triple.py has been called
CallersIdle ==
    /\ raw_name = <<>>
    /\ safe = NoneVal
    /\ applications = 0
    /\ StoreIdle
    /\ ExtractIdle


\* no graph document (yet)
NoDocument == [none |-> TRUE]

Put(m, k, v) == [x \in DOMAIN m \cup {k} |-> IF x = k THEN v ELSE m[x]]

\* dict.get(k, default)
Get(m, k, default) == IF k \in DOMAIN m THEN m[k] ELSE default

\* elem.get(attr, default) for an attribute value v
Attr(v, default) == IF v = NoneVal THEN default ELSE v

\* ---------------------------------------------------------------- load_xml
\* _strip_ns(tag) for a string; on None the test '"}" in tag' raises TypeError
_strip_ns(tag) == SplitLast(tag, "}")

\* A map of the declarations of the root element only
NamespaceMapRootOnly(ns_list, m) ==
    LET rootDecls == SelectSeq(ns_list, LAMBDA d : d[3] = 0) IN
    [k \in { IF rootDecls[i][1] = <<>> THEN <<"default">> ELSE rootDecls[i][1] :
             i \in DOMAIN rootDecls } |->
        rootDecls[CHOOSE i \in DOMAIN rootDecls :
                     (IF rootDecls[i][1] = <<>> THEN <<"default">> ELSE rootDecls[i][1]) = k][2]]

\* self.namespaces: prefix (or "default") -> uri, later declarations win
RECURSIVE NamespaceMap(_, _)
NamespaceMap(ns_list, m) ==
    IF ns_list = <<>> THEN m
    ELSE NamespaceMap(Tail(ns_list),
                      Put(m, IF Head(ns_list)[1] = <<>> THEN <<"default">>
                             ELSE Head(ns_list)[1], Head(ns_list)[2]))

\* elem.get(f"{{{self.namespaces.get('xmi', '')}}}<attr>") for the xmi-qualified
\* attribute value v of an element, under the namespace map ns
XmiAttrIn(ns, v) == IF Get(ns, <<"xmi">>, <<>>) = XMI_URI THEN v ELSE NoneVal

XmiAttr(v) == XmiAttrIn(namespaces, v)

\* The elements of the tree in the order of root.iter(), reduced to what the
\* index pass reads.
IndexView(el, subs, sts) ==
    [id |-> el.id, name |-> el.name, xmiType |-> el.xmiType,
     subLabels |-> subs, stereotypeNodes |-> sts]

\* the node at position i of c and the connections nested in it
RECURSIVE NodeViews(_, _)
NodeViews(c, i) ==
    IF i > Len(c.nodes) THEN <<>>
    ELSE LET inside == SelectSeq(c.nestedConnections, LAMBDA nc : nc.parent = i) IN
         << IndexView(c.nodes[i], c.nodes[i].subLabels, c.nodes[i].stereotypeNodes) >>
         \o [j \in DOMAIN inside |-> IndexView(inside[j].conn, inside[j].conn.subLabels, <<>>)]
         \o NodeViews(c, i + 1)

ElementViews(c) ==
    << IndexView(c, <<>>, <<>>) >>
    \o NodeViews(c, 1)
    \o [j \in DOMAIN c.connections |->
          IndexView(c.connections[j], c.connections[j].subLabels, <<>>)]

RECURSIVE IterAll(_)
IterAll(es) == IF es = <<>> THEN <<>> ELSE ElementViews(Head(es)) \o IterAll(Tail(es))

NameSubLabels(el) == SelectSeq(el.subLabels, LAMBDA l : l.alias = <<"Name">>)

\* One iteration of the loop of lines 50-93: the index after the element, or
\* the exception it raises.
IndexStep(ns, el, idx) ==
    LET elem_id == XmiAttrIn(ns, el.id) IN
    IF ~Truthy(elem_id) THEN [raised |-> "", index |-> idx]
    ELSE IF Truthy(el.name) THEN [raised |-> "", index |-> Put(idx, elem_id, el.name)]
    ELSE IF el.stereotypeNodes # <<>> /\ Truthy(el.stereotypeNodes[1].name)
    THEN [raised |-> "",
          index |-> Put(idx, elem_id,
                        Strip(StripChars(el.stereotypeNodes[1].name, {"<", ">"})))]
    ELSE IF NameSubLabels(el) # <<>>
    THEN IF NameSubLabels(el)[1].name = NoneVal
         THEN [raised |-> "AttributeError", index |-> idx]
         ELSE [raised |-> "", index |-> Put(idx, elem_id, Strip(NameSubLabels(el)[1].name))]
    ELSE IF Truthy(XmiAttrIn(ns, el.xmiType))
    THEN [raised |-> "",
          index |-> Put(idx, elem_id,
                        Replace(Replace2(_strip_ns(XmiAttrIn(ns, el.xmiType)), <<"trufun", ":">>), "T")
                        \o <<" (type)">>)]
    ELSE [raised |-> "",
          index |-> Put(idx, elem_id, <<"unknown element (ID: ">> \o elem_id \o <<")">>)]

RECURSIVE BuildIndex(_, _, _)
BuildIndex(ns, els, idx) ==
    IF els = <<>> THEN [raised |-> "", index |-> idx]
    ELSE LET r == IndexStep(ns, Head(els), idx) IN
         IF r.raised # "" THEN r ELSE BuildIndex(ns, Tail(els), r.index)

TypeOK ==
    /\ pc \in {"start", "requirement", "internal_block", "block", "usecase",
               "activity", "class", "state_machine", "package", "parametric",
               "tables", "serialize", "write", "done", "raised"}
    /\ seed \in Seeds
    /\ run \in 1..2
    /\ calls \in 0..MaxCalls
    /\ Len(origin) = Len(triples)

InitWith(texts) ==
    /\ file_content \in texts
    /\ pc = "start"
    /\ seed \in Seeds
    /\ root = NoneVal
    /\ namespaces = EmptyMap
    /\ model_elements_by_id = EmptyMap
    /\ triples = <<>>
    /\ origin = <<>>
    /\ dispatched = {}
    /\ graph = NoDocument
    /\ label = ""
    /\ calls = 0
    /\ output = NoDocument
    /\ error = ""
    /\ run = 1
    /\ prevSeed = 0
    /\ prevTriples = <<>>
    /\ prevOutput = NoDocument
    /\ CallersIdle

Init == InitWith(Documents(MaxDiagrams))

\* A lenient parser that recovers from any text instead of raising
WellFormedLenient(text) == TRUE

\* ET.iterparse (line 38) and ET.fromstring (line 45) accept the text
WellFormed(text) == text.wellFormed

\* SysMLParser.__init__ with load_xml: ET.iterparse / ET.fromstring raise
\* ParseError on text that is not well-formed; otherwise the namespace map, the
\* root and the index are set; the index pass reads the new namespace map.
load_xml ==
    /\ pc = "start"
    /\ IF ~WellFormed(file_content)
       THEN /\ pc' = "raised"
            /\ error' = "ParseError"
            /\ UNCHANGED << root, namespaces, model_elements_by_id >>
       ELSE LET ns == NamespaceMap(file_content.nsDecls, EmptyMap)
                r == BuildIndex(ns, IterAll(file_content.elements), EmptyMap)
            IN /\ namespaces' = ns
               /\ root' = file_content.elements
               /\ model_elements_by_id' = r.index
               /\ pc' = IF r.raised # "" THEN "raised" ELSE "requirement"
               /\ error' = r.raised
    /\ UNCHANGED << callerVars, file_content, seed, triples, origin, dispatched, graph, label,
                    calls, output, run, prevSeed, prevTriples, prevOutput >>

\* ------------------------------------------------- diagram discriminators
\* A discriminator that leaves out the test of the tag
IsContentsAnyTag(c) == TRUE

IsContents(c) == _strip_ns(<<c.tag>>) = <<"contents">>

\* lines 115-118
IsRequirementDiagram(c) == IsContents(c) /\ c.stereotype = <<"SysmlRequirementDiagram">>
\* lines 209-212
IsInternalBlockDiagram(c) == IsContents(c) /\ c.stereotype = <<"SysmlInternalBlockDiagram">>
\* line 321
IsBlockDiagram(c) == IsContents(c) /\ c.stereotype = <<"SysmlBlockDiagram">>
\* lines 410-414
IsUsecaseDiagram(c) == IsContents(c) /\ XmiAttr(c.xmiType) = Trufun(<<"UsecaseDiagram">>)
\* lines 507-511
IsActivityDiagram(c) == IsContents(c) /\ XmiAttr(c.xmiType) = Trufun(<<"ActivityDiagram">>)
\* lines 704-708
IsClassDiagram(c) == IsContents(c) /\ XmiAttr(c.xmiType) = Trufun(<<"ClassDiagram">>)
\* lines 871-876
IsStateMachineDiagram(c) ==
    IsContents(c) /\ XmiAttr(c.xmiType) = Trufun(<<"StateMachineDiagram">>)
                  /\ c.stereotype = <<"SysMLStateDiagram">>
\* lines 1106-1111
IsSequenceDiagram(c) ==
    IsContents(c) /\ XmiAttr(c.xmiType) = Trufun(<<"SequenceDiagram">>)
                  /\ c.stereotype = <<"SysMLSequenceDiagram">>
\* line 1415
IsPackageDiagram(c) == IsContents(c) /\ c.stereotype = <<"SysMlPackageDiagram">>
\* lines 1529-1535
IsParametricDiagram(c) ==
    IsContents(c) /\ c.stereotype = <<"SysmlParameterDiagram">>
                  /\ XmiAttr(c.xmiType) = Trufun(<<"CompositeStructureDiagram">>)

\* The extractors parse_all calls, in the order of lines 1868-1876.
ParseAllOrder ==
    << "requirement", "internal_block", "block", "usecase", "activity", "class",
       "state_machine", "package", "parametric" >>

Kinds == { ParseAllOrder[i] : i \in DOMAIN ParseAllOrder } \cup {"sequence"}

Recognises(k, c) ==
    CASE k = "requirement"    -> IsRequirementDiagram(c)
      [] k = "internal_block" -> IsInternalBlockDiagram(c)
      [] k = "block"          -> IsBlockDiagram(c)
      [] k = "usecase"        -> IsUsecaseDiagram(c)
      [] k = "activity"       -> IsActivityDiagram(c)
      [] k = "class"          -> IsClassDiagram(c)
      [] k = "state_machine"  -> IsStateMachineDiagram(c)
      [] k = "sequence"       -> IsSequenceDiagram(c)
      [] k = "package"        -> IsPackageDiagram(c)
      [] k = "parametric"     -> IsParametricDiagram(c)

\* ------------------------------------------------------ phase A: node names
Same(tbl) == [raised |-> "", table |-> tbl]
Named(tbl, id, name) == [raised |-> "", table |-> Put(tbl, id, name)]
Raise(e, tbl) == [raised |-> e, table |-> tbl]

\* "other node (<type>): <name or ID>" (lines 248-251, 1681-1684)
OtherNode(xt, name, id) ==
    IF Truthy(name) THEN <<"other node (">> \o _strip_ns(xt) \o <<"): ">> \o name
    ELSE <<"other node (">> \o _strip_ns(xt) \o <<"): ID ">> \o id

\* "unknown node (<type>): <name or ID>" (lines 565, 940)
UntypedNode(xt, name, id) ==
    <<"unknown node (">> \o _strip_ns(xt) \o <<"): ">>
    \o (IF Truthy(name) THEN name ELSE <<"ID ">> \o id)

\* lines 125-133
RequirementNode(n, tbl) ==
    IF n.stereotype = <<"<", "<", "requirement", ">", ">">> /\ Truthy(XmiAttr(n.id))
    THEN Named(tbl, XmiAttr(n.id), Strip(Attr(n.name, <<"unnamed requirement">>)))
    ELSE Same(tbl)

\* lines 220-259
InternalBlockNode(n, tbl) ==
    LET node_xmi_type == XmiAttr(n.xmiType)
        node_id == XmiAttr(n.id)
        node_name == Strip(Attr(n.name, <<>>))
    IN  IF ~Truthy(node_id) THEN Same(tbl)
        ELSE IF node_xmi_type = Trufun(<<"StructureClassNode">>)
        THEN Named(tbl, node_id, <<"context block: ">> \o node_name)
        ELSE IF node_xmi_type = Trufun(<<"ModelElementNode">>) /\ n.type = <<"SysML", ".", "IBD", ".", "PartProperty">>
        THEN Named(tbl, node_id, <<"part: ">> \o Strip(LStrip(node_name, {":", " "})))
        ELSE IF node_xmi_type = Trufun(<<"PortNode">>)
        THEN Named(tbl, node_id,
                   <<"port: ">> \o Strip(Replace(Replace(node_name, ":"), "~")))
        ELSE IF node_xmi_type = <<"trufun", ":", "SubLabel">> THEN Same(tbl)
        ELSE IF node_xmi_type = NoneVal THEN Raise("TypeError", tbl)
        ELSE Named(tbl, node_id, OtherNode(node_xmi_type, node_name, node_id))

\* lines 328-338
BlockNode(n, tbl) ==
    IF n.name # NoneVal /\ Truthy(XmiAttr(n.id)) /\ n.type # <<"ListCompartmentChild">>
    THEN Named(tbl, XmiAttr(n.id), Strip(n.name))
    ELSE Same(tbl)

\* lines 422-444
UsecaseNode(n, tbl) ==
    LET node_xmi_type == XmiAttr(n.xmiType)
        node_id == XmiAttr(n.id)
        node_name == Strip(Attr(n.name, <<"unnamed">>))
    IN  IF Truthy(node_id) /\ (node_xmi_type = Trufun(<<"UseCaseNode">>)
                               \/ (node_xmi_type = Trufun(<<"ModelElementNode">>)
                                   /\ n.stereotype = <<"<", "<", "block", ">", ">">>))
        THEN Named(tbl, node_id, node_name)
        ELSE Same(tbl)

PinName(prefix, bare, node_name) ==
    IF Truthy(node_name) THEN prefix \o Strip(Replace(node_name, ":")) ELSE bare

\* lines 519-567
ActivityNode(n, tbl) ==
    LET node_xmi_type == XmiAttr(n.xmiType)
        node_id == XmiAttr(n.id)
        node_name == Strip(Attr(n.name, <<>>))
    IN  IF ~Truthy(node_id) THEN Same(tbl)
        ELSE IF node_xmi_type = Trufun(<<"InitialNode">>) THEN Named(tbl, node_id, <<"initial node">>)
        ELSE IF node_xmi_type = Trufun(<<"ActivityFinalNode">>) THEN Named(tbl, node_id, <<"activity final">>)
        ELSE IF node_xmi_type = Trufun(<<"DecisionNode">>) THEN Named(tbl, node_id, <<"decision node">>)
        ELSE IF node_xmi_type = Trufun(<<"ActionNode">>) THEN Named(tbl, node_id, node_name)
        ELSE IF node_xmi_type = Trufun(<<"Input", "PinNode">>)
        THEN Named(tbl, node_id, PinName(<<"input pin: ">>, <<"input pin">>, node_name))
        ELSE IF node_xmi_type = Trufun(<<"Output", "PinNode">>)
        THEN Named(tbl, node_id, PinName(<<"output pin: ">>, <<"output pin">>, node_name))
        ELSE IF node_xmi_type = Trufun(<<"CommentNode">>)
        THEN Named(tbl, node_id, <<"comment: ">> \o node_name)
        ELSE IF node_xmi_type = Trufun(<<"CallBehaviorAction">>)
        THEN Named(tbl, node_id, <<"call behavior: ">> \o node_name)
        ELSE IF node_xmi_type = Trufun(<<"SubjectNode">>)
        THEN Named(tbl, node_id, <<"partition: ">> \o node_name)
        ELSE IF node_xmi_type = Trufun(<<"ActivityNode">>)
        THEN Named(tbl, node_id, <<"top activity: ">> \o node_name)
        ELSE IF node_xmi_type = <<"trufun", ":", "SubLabel">> THEN Same(tbl)
        ELSE IF node_xmi_type = NoneVal THEN Raise("TypeError", tbl)
        ELSE Named(tbl, node_id, UntypedNode(node_xmi_type, node_name, node_id))

\* lines 570-619: the logging pass tests '"PinNode" not in sub_node_xmi_type' on
\* the children of the partitions of the first top-level activity node.
ActivityLogRaises(c) ==
    LET mains == { i \in DOMAIN c.nodes :
                     c.nodes[i].parent = 0 /\ XmiAttr(c.nodes[i].xmiType) = Trufun(<<"ActivityNode">>) }
    IN  /\ mains # {}
        /\ LET main == CHOOSE i \in mains : \A j \in mains : i <= j IN
           \E p \in DOMAIN c.nodes, q \in DOMAIN c.nodes :
              /\ c.nodes[p].parent = main
              /\ XmiAttr(c.nodes[p].xmiType) = Trufun(<<"SubjectNode">>)
              /\ c.nodes[q].parent = p
              /\ XmiAttr(c.nodes[q].xmiType) = NoneVal

\* lines 715-752
ClassNode(n, tbl) ==
    LET node_xmi_type == XmiAttr(n.xmiType)
        node_id == XmiAttr(n.id)
        node_name == Strip(Attr(n.name, <<>>))
    IN  IF /\ Truthy(node_id)
           /\ node_xmi_type \in {Trufun(<<"ClassNode">>), Trufun(<<"ModelElementNode">>), Trufun(<<"CommentNode">>)}
           /\ Truthy(node_name)
        THEN Named(tbl, node_id, node_name)
        ELSE Same(tbl)

OrUnnamed(node_name) == IF Truthy(node_name) THEN node_name ELSE <<"unnamed">>

\* lines 885-942
StateMachineNode(n, tbl) ==
    LET node_xmi_type == XmiAttr(n.xmiType)
        node_id == XmiAttr(n.id)
        node_name == Strip(Attr(n.name, <<>>))
    IN  IF ~Truthy(node_id) THEN Same(tbl)
        ELSE IF node_xmi_type = Trufun(<<"StateMachineNode">>)
        THEN Named(tbl, node_id, <<"state machine: ">> \o OrUnnamed(node_name))
        ELSE IF node_xmi_type = Trufun(<<"RegionNode">>)
        THEN Named(tbl, node_id, <<"region: ">> \o OrUnnamed(node_name))
        ELSE IF node_xmi_type = Trufun(<<"InitialStateNode">>) THEN Named(tbl, node_id, <<"initial state">>)
        ELSE IF node_xmi_type = Trufun(<<"FinalStateNode">>) THEN Named(tbl, node_id, <<"final state">>)
        ELSE IF node_xmi_type = Trufun(<<"CompositeStateNode">>)
        THEN Named(tbl, node_id, <<"state: ">> \o OrUnnamed(node_name))
        ELSE IF node_xmi_type = Trufun(<<"ChoiceStateNode">>) THEN Named(tbl, node_id, <<"choice">>)
        ELSE IF node_xmi_type = Trufun(<<"JoinStateNode">>) THEN Named(tbl, node_id, <<"join">>)
        ELSE IF node_xmi_type = Trufun(<<"ForkStateNode">>) THEN Named(tbl, node_id, <<"fork">>)
        ELSE IF node_xmi_type = Trufun(<<"EntryPointNode">>) THEN Named(tbl, node_id, <<"entry point">>)
        ELSE IF node_xmi_type = Trufun(<<"ExitPointNode">>) THEN Named(tbl, node_id, <<"exit point">>)
        ELSE IF node_xmi_type = Trufun(<<"CommentNode">>) /\ n.type = <<"HyperLink">>
        THEN Named(tbl, node_id, <<"hyperlink: ">> \o node_name)
        ELSE IF node_xmi_type = <<"trufun", ":", "SubLabel">> THEN Same(tbl)
        ELSE IF node_xmi_type = NoneVal THEN Raise("TypeError", tbl)
        ELSE Named(tbl, node_id, UntypedNode(node_xmi_type, node_name, node_id))

\* lines 1424-1435
PackageNode(n, tbl) ==
    IF Truthy(XmiAttr(n.id)) /\ XmiAttr(n.xmiType) = Trufun(<<"PackageNode">>)
    THEN Named(tbl, XmiAttr(n.id), Strip(Attr(n.name, <<>>)))
    ELSE Same(tbl)

\* lines 1601-1625: the value properties directly inside a part property
RECURSIVE InnerValueProperties(_, _, _, _)
InnerValueProperties(c, i, q, tbl) ==
    IF q > Len(c.nodes) THEN tbl
    ELSE LET m == c.nodes[q] IN
         InnerValueProperties(c, i, q + 1,
            IF m.parent = i /\ Truthy(XmiAttr(m.id)) /\ m.type = <<"SysML", ".", "IBD", ".", "ValueProperty">>
            THEN Put(tbl, XmiAttr(m.id),
                     <<"inner value property: ">> \o Strip(Attr(m.name, <<>>)))
            ELSE tbl)

\* lines 1544-1687, for the i-th node of c
ParametricNode(c, i, tbl) ==
    LET n == c.nodes[i]
        node_xmi_type == XmiAttr(n.xmiType)
        node_id == XmiAttr(n.id)
        node_name == Strip(Attr(n.name, <<>>))
        referenced_name == IF Truthy(n.modelElement)
                           THEN Get(model_elements_by_id, n.modelElement, NoneVal)
                           ELSE NoneVal
        names == NameSubLabels(n)
    IN  IF ~Truthy(node_id) THEN Same(tbl)
        ELSE IF node_xmi_type = Trufun(<<"StructureClassNode">>) /\ n.stereotype = <<"<", "<", "block", ">", ">">>
        THEN Named(tbl, node_id, <<"context block: ">> \o node_name)
        ELSE IF n.type = <<"SysML", ".", "IBD", ".", "ConstraintProperty">>
        THEN Named(tbl, node_id,
                   IF Truthy(node_name) THEN <<"constraint property: ">> \o node_name
                   ELSE IF Truthy(referenced_name) /\ ~Contains(referenced_name, " (type)")
                   THEN <<"constraint property: ">> \o referenced_name
                   ELSE <<"constraint property (ID: ">> \o node_id \o <<")">>)
        ELSE IF n.type = <<"SysML", ".", "IBD", ".", "ValueProperty">>
        THEN Named(tbl, node_id, <<"value property: ">> \o node_name)
        ELSE IF n.type = <<"SysML", ".", "IBD", ".", "PartProperty">>
        THEN Same(InnerValueProperties(c, i, 1,
                     Put(tbl, node_id,
                         <<"part property: ">> \o Strip(LStrip(node_name, {":", " "})))))
        ELSE IF node_xmi_type = Trufun(<<"PortNode">>) /\ n.stereotype = <<"<", "<", "constraintParameter", ">", ">">>
        THEN IF names # <<>> /\ names[1].name = NoneVal THEN Raise("AttributeError", tbl)
             ELSE Named(tbl, node_id,
                        IF names # <<>> /\ Truthy(Strip(names[1].name))
                        THEN <<"parameter: ">> \o Strip(names[1].name)
                        ELSE IF Truthy(node_name)
                        THEN <<"parameter: ">> \o Strip(SplitFirst(node_name, ":"))
                        ELSE <<"parameter (ID: ">> \o node_id \o <<")">>)
        ELSE IF node_xmi_type = <<"trufun", ":", "SubLabel">> THEN Same(tbl)
        ELSE IF node_xmi_type = NoneVal THEN Raise("TypeError", tbl)
        ELSE Named(tbl, node_id, OtherNode(node_xmi_type, node_name, node_id))

\* The naming rule of extractor k applied to the i-th node of c.
NodeStep(k, c, i, tbl) ==
    CASE k = "requirement"    -> RequirementNode(c.nodes[i], tbl)
      [] k = "internal_block" -> InternalBlockNode(c.nodes[i], tbl)
      [] k = "block"          -> BlockNode(c.nodes[i], tbl)
      [] k = "usecase"        -> UsecaseNode(c.nodes[i], tbl)
      [] k = "activity"       -> ActivityNode(c.nodes[i], tbl)
      [] k = "class"          -> ClassNode(c.nodes[i], tbl)
      [] k = "state_machine"  -> StateMachineNode(c.nodes[i], tbl)
      [] k = "package"        -> PackageNode(c.nodes[i], tbl)
      [] k = "parametric"     -> ParametricNode(c, i, tbl)

\* node_id_to_name of extractor k for element c: the loop over
\* findall(".//nodes") in document order, from node i on.
RECURSIVE BuildTable(_, _, _, _)
BuildTable(k, c, i, tbl) ==
    IF i > Len(c.nodes)
    THEN IF k = "activity" /\ ActivityLogRaises(c) THEN Raise("TypeError", tbl) ELSE Same(tbl)
    ELSE LET r == NodeStep(k, c, i, tbl) IN
         IF r.raised # "" THEN r ELSE BuildTable(k, c, i + 1, r.table)

\* A table that extractor k keeps from one diagram to the next: the names of
\* the nodes of every diagram it recognises
RECURSIVE TableOfAll(_, _, _)
TableOfAll(k, i, r) ==
    IF i > Len(root) \/ r.raised # "" THEN r
    ELSE TableOfAll(k, i + 1,
            IF Recognises(k, root[i]) THEN BuildTable(k, root[i], 1, r.table) ELSE r)
NodeIdToNameShared(k, c) == TableOfAll(k, 1, Same(EmptyMap))

node_id_to_name(k, c) == BuildTable(k, c, 1, EmptyMap)

\* ------------------------------------------------ phase B: relation labels
\* placeholder of lines 164, 269, 366, 458, 632, 818, 1055, 1712
UnknownNode(id) == <<"unknown node (ID: ">> \o id \o <<")">>

\* placeholder of lines 1449, 1452
UnknownPackage(id) == <<"unknown package (ID: ">> \o id \o <<")">>

\* type_name.replace("T", "").replace("Connection", "")
CleanType(type_name) == Replace(Replace(type_name, "T"), "Connection")

\* str.capitalize(): first character upper case, the rest lower case
UpperFirst(c) ==
    CASE c = "derive" -> "Derive" [] c = "satisfy" -> "Satisfy"
      [] c = "import" -> "Import" [] OTHER -> c
Lower(c) == CASE c = "T" -> "t" [] c = "Connection" -> "connection" [] OTHER -> c
Capitalize(s) ==
    IF s = <<>> THEN s
    ELSE <<UpperFirst(Head(s))>> \o [i \in 1..(Len(s) - 1) |-> Lower(s[i + 1])]

\* a in b, for strings
IsSub(a, b) ==
    \E i \in 0..(Len(b) - Len(a)) : SubSeq(b, i + 1, i + Len(a)) = a

Label(l) == [raised |-> "", label |-> l]

\* A label chain that looks at the type attribute before the stereotype
RequirementLabelTypeFirst(conn) ==
    IF Truthy(conn.type) THEN Label(SplitLast(conn.type, "."))
    ELSE IF Truthy(conn.stereotype)
    THEN Label(Capitalize(StripChars(conn.stereotype, {"<", ">"})))
    ELSE Label(<<"Unknown">>)

\* lines 171-185
RequirementLabel(conn) ==
    IF Truthy(conn.stereotype)
    THEN Label(Capitalize(StripChars(conn.stereotype, {"<", ">"})))
    ELSE IF Truthy(conn.type) THEN Label(SplitLast(conn.type, "."))
    ELSE Label(<<"Unknown">>)

\* lines 276-295
InternalBlockLabel(conn) ==
    IF conn.type = <<"SysML", ".", "IBD", ".", "Connector">> THEN Label(<<"Connector">>)
    ELSE IF Truthy(XmiAttr(conn.xmiType))
    THEN Label(CleanType(SplitLast(XmiAttr(conn.xmiType), ":")))
    ELSE Label(_strip_ns(<<"connections">>))

\* lines 372-385
BlockLabel(conn) ==
    IF Truthy(XmiAttr(conn.xmiType))
    THEN Label(CleanType(SplitLast(XmiAttr(conn.xmiType), ":")))
    ELSE Label(_strip_ns(<<"connections">>))

\* lines 464-482
UsecaseLabel(conn) ==
    IF Truthy(XmiAttr(conn.xmiType))
    THEN IF SplitLast(XmiAttr(conn.xmiType), ":") = SplitLast(Trufun(<<"Association", "Connection">>), ":")
         THEN Label(<<"Association">>)
         ELSE Label(CleanType(SplitLast(XmiAttr(conn.xmiType), ":")))
    ELSE Label(_strip_ns(<<"connections">>))

\* lines 670-678: stereotype sub-labels appended to the label
RECURSIVE AppendStereotypes(_, _)
AppendStereotypes(subs, conn_type) ==
    IF subs = <<>> THEN Label(conn_type)
    ELSE IF Head(subs).alias # <<"Stereotype">> THEN AppendStereotypes(Tail(subs), conn_type)
    ELSE IF Head(subs).name = NoneVal THEN [raised |-> "TypeError", label |-> conn_type]
    ELSE IF IsSub(Head(subs).name, conn_type) THEN AppendStereotypes(Tail(subs), conn_type)
    ELSE AppendStereotypes(Tail(subs),
            conn_type \o <<" ">> \o StripChars(Strip(Head(subs).name), {"<", ">"}))

\* lines 638-678
ActivityLabel(conn) ==
    LET type_name == SplitLast(XmiAttr(conn.xmiType), ":") IN
    IF Truthy(conn.stereotype) THEN Label(StripChars(conn.stereotype, {"<", ">"}))
    ELSE AppendStereotypes(conn.subLabels,
            IF ~Truthy(XmiAttr(conn.xmiType)) THEN <<"Unknown Flow">>
            ELSE IF type_name = SplitLast(Trufun(<<"ControlFlow", "Connection">>), ":") THEN <<"Control Flow">>
            ELSE IF type_name = SplitLast(Trufun(<<"ObjectFlow", "Connection">>), ":") THEN <<"Object Flow">>
            ELSE CleanType(type_name))

\* lines 824-846
ClassLabel(conn) ==
    LET type_name == SplitLast(XmiAttr(conn.xmiType), ":") IN
    IF Truthy(conn.stereotype) THEN Label(StripChars(conn.stereotype, {"<", ">"}))
    ELSE IF ~Truthy(XmiAttr(conn.xmiType)) THEN Label(<<"Unknown Relationship">>)
    ELSE IF type_name = SplitLast(Trufun(<<"Association", "Connection">>), ":") THEN Label(<<"Association">>)
    ELSE IF type_name = SplitLast(Trufun(<<"Generalize", "Connection">>), ":") THEN Label(<<"Generalization">>)
    ELSE IF type_name = SplitLast(Trufun(<<"Realize", "Connection">>), ":") THEN Label(<<"Realization">>)
    ELSE IF type_name = SplitLast(Trufun(<<"Dependency", "Connection">>), ":") THEN Label(<<"Dependency">>)
    ELSE Label(CleanType(type_name))

\* A label that takes the transition's name when it has one
StateMachineLabelNamed(conn) ==
    IF Truthy(Strip(Attr(conn.name, <<>>))) THEN Label(Strip(conn.name)) ELSE Label(<<"Transition">>)

\* lines 1061-1064
StateMachineLabel(conn) == Label(<<"Transition">>)

\* lines 1483-1493
FixedNameSuffix(conn) ==
    LET fixed == SelectSeq(conn.subLabels, LAMBDA l : l.alias = <<"FixedName">>) IN
    IF fixed # <<>> /\ Truthy(Strip(Attr(fixed[1].name, <<>>)))
    THEN <<" (">> \o Strip(Attr(fixed[1].name, <<>>)) \o <<")">>
    ELSE <<>>

\* A label that takes the stereotype when the connection has one
PackageLabelStereotypeFirst(conn) ==
    IF Truthy(conn.stereotype) THEN Label(Capitalize(StripChars(conn.stereotype, {"<", ">"})))
    ELSE Label((IF Truthy(conn.type) THEN conn.type ELSE <<"Unknown Relationship">>)
               \o FixedNameSuffix(conn))

\* lines 1455-1505
PackageLabel(conn) ==
    LET conn_xmi_type == XmiAttr(conn.xmiType) IN
    IF conn_xmi_type = Trufun(<<"Realization", "Connection">>) /\ Truthy(conn.type)
    THEN Label((IF conn.type = <<"ElementImport">> THEN <<"element import">>
                ELSE IF conn.type = <<"PackageImport">> THEN <<"package import">>
                ELSE conn.type) \o FixedNameSuffix(conn))
    ELSE IF conn_xmi_type = NoneVal THEN [raised |-> "TypeError", label |-> <<>>]
    ELSE Label(Replace(Replace2(_strip_ns(conn_xmi_type), <<"trufun", ":">>), "Connection")
               \o FixedNameSuffix(conn))

\* lines 1719-1723
ParametricLabel(conn) ==
    IF Truthy(StripChars(Attr(conn.stereotype, <<>>), {"<", ">"}))
    THEN Label(<<"Binding (">> \o StripChars(conn.stereotype, {"<", ">"}) \o <<")">>)
    ELSE Label(<<"Binding">>)

RelationLabel(k, conn) ==
    CASE k = "requirement"    -> RequirementLabel(conn)
      [] k = "internal_block" -> InternalBlockLabel(conn)
      [] k = "block"          -> BlockLabel(conn)
      [] k = "usecase"        -> UsecaseLabel(conn)
      [] k = "activity"       -> ActivityLabel(conn)
      [] k = "class"          -> ClassLabel(conn)
      [] k = "state_machine"  -> StateMachineLabel(conn)
      [] k = "package"        -> PackageLabel(conn)
      [] k = "parametric"     -> ParametricLabel(conn)

\* A guard that asks for the target ID only
ExtractedWithTarget(k, conn) ==
    /\ Truthy(conn.target)
    /\ k = "parametric" => conn.paletteEntry = <<"SysML", ".", "IBD", ".", "BindingConnector">>

\* The guard of the connection loop: 'if source_id and target_id' and, in a
\* parametric diagram, the binding-connector marker (lines 1703-1709).
\* A guard that asks for the two IDs only, in every kind
ExtractedWithoutMarker(k, conn) == Truthy(conn.source) /\ Truthy(conn.target)

Extracted(k, conn) ==
    /\ Truthy(conn.source)
    /\ Truthy(conn.target)
    /\ k = "parametric" => conn.paletteEntry = <<"SysML", ".", "IBD", ".", "BindingConnector">>

\* A placeholder that names a per-process value (an object address, a hash)
\* next to the ID
ResolvePerProcess(k, tbl, id) ==
    Get(tbl, id, UnknownNode(<<ToString(seed)>> \o id))

\* node_id_to_name.get(id, placeholder) of extractor k
Resolve(k, tbl, id) ==
    Get(tbl, id, IF k = "package" THEN UnknownPackage(id) ELSE UnknownNode(id))

\* ------------------------------------------------------------- extractors
\* The <connections> elements of c at any depth
ConnectionsAnyDepth(c) ==
    c.connections \o [j \in DOMAIN c.nestedConnections |-> c.nestedConnections[j].conn]

\* findall("./connections"): the <connections> children of c
ConnectionsOf(c) == c.connections

\* A connection loop that puts each new triple at the head of the list
RECURSIVE ConnectionLoopPrepending(_, _, _, _, _)
ConnectionLoopPrepending(k, i, j, tbl, acc) ==
    LET c == root[i] IN
    IF j > Len(ConnectionsOf(c)) THEN acc
    ELSE LET conn == ConnectionsOf(c)[j]
             l == RelationLabel(k, conn)
         IN  IF ~Extracted(k, conn) THEN ConnectionLoopPrepending(k, i, j + 1, tbl, acc)
             ELSE IF l.raised # "" THEN [acc EXCEPT !.raised = l.raised]
             ELSE ConnectionLoopPrepending(k, i, j + 1, tbl,
                    [acc EXCEPT
                       !.triples = << << Resolve(k, tbl, conn.source), l.label,
                                         Resolve(k, tbl, conn.target) >> >> \o @,
                       !.origin = << [kind |-> k, elem |-> i, conn |-> j] >> \o @])

\* The connection loop of extractor k over findall("./connections") of the
\* i-th element, from connection j on; acc is the run's state so far.
RECURSIVE ConnectionLoop(_, _, _, _, _)
ConnectionLoop(k, i, j, tbl, acc) ==
    LET c == root[i] IN
    IF j > Len(ConnectionsOf(c)) THEN acc
    ELSE LET conn == ConnectionsOf(c)[j]
             l == RelationLabel(k, conn)
         IN  IF ~Extracted(k, conn) THEN ConnectionLoop(k, i, j + 1, tbl, acc)
             ELSE IF l.raised # "" THEN [acc EXCEPT !.raised = l.raised]
             ELSE ConnectionLoop(k, i, j + 1, tbl,
                    [acc EXCEPT
                       !.triples = Append(@, << Resolve(k, tbl, conn.source), l.label,
                                                Resolve(k, tbl, conn.target) >>),
                       !.origin = Append(@, [kind |-> k, elem |-> i, conn |-> j])])

\* The loop 'for elem in self.root.iter()' of extractor k, from element i on.
RECURSIVE DiagramLoop(_, _, _)
DiagramLoop(k, i, acc) ==
    IF i > Len(root) THEN acc
    ELSE IF ~Recognises(k, root[i]) THEN DiagramLoop(k, i + 1, acc)
    ELSE LET entered == [acc EXCEPT !.dispatched = @ \cup {<<k, i>>}]
             t == node_id_to_name(k, root[i])
         IN  IF t.raised # "" THEN [entered EXCEPT !.raised = t.raised]
             ELSE LET after == ConnectionLoop(k, i, 1, t.table, entered) IN
                  IF after.raised # "" THEN after ELSE DiagramLoop(k, i + 1, after)

\* One extract_*_diagrams call of parse_all: the n-th of ParseAllOrder.
Extract(n) ==
    LET k == ParseAllOrder[n]
        r == DiagramLoop(k, 1, [triples |-> triples, origin |-> origin,
                                dispatched |-> dispatched, raised |-> ""])
    IN  /\ pc = k
        /\ triples' = r.triples
        /\ origin' = r.origin
        /\ dispatched' = r.dispatched
        /\ error' = r.raised
        /\ pc' = IF r.raised # "" THEN "raised"
                 ELSE IF n < Len(ParseAllOrder) THEN ParseAllOrder[n + 1]
                 ELSE "tables"
        /\ UNCHANGED << callerVars, file_content, seed, root, namespaces, model_elements_by_id,
                        graph, label, calls, output, run, prevSeed, prevTriples,
                        prevOutput >>

extract_requirement_diagrams    == Extract(1)
extract_internal_block_diagrams == Extract(2)
extract_block_diagrams          == Extract(3)
extract_usecase_diagrams        == Extract(4)
extract_activity_diagrams       == Extract(5)
extract_class_diagrams          == Extract(6)
extract_state_machine_diagrams  == Extract(7)
extract_package_diagrams        == Extract(8)
extract_parametric_diagrams     == Extract(9)

\* An extract_tables that records the name of the table it logs in the index
ExtractTablesIndexing ==
    /\ pc = "tables"
    /\ pc' = "serialize"
    /\ model_elements_by_id' = Put(model_elements_by_id, <<"table">>, <<"Diagram">>)
    /\ UNCHANGED << callerVars, file_content, seed, root, namespaces, triples, origin, dispatched,
                    graph, label, calls, output, error, run, prevSeed, prevTriples,
                    prevOutput >>

\* lines 1744-1824: reads the tree and the index, logs, changes nothing
extract_tables ==
    /\ pc = "tables"
    /\ pc' = "serialize"
    /\ UNCHANGED << callerVars, file_content, seed, root, namespaces, model_elements_by_id, triples,
                    origin, dispatched, graph, label, calls, output, error, run,
                    prevSeed, prevTriples, prevOutput >>

parse_all ==
    \/ extract_requirement_diagrams
    \/ extract_internal_block_diagrams
    \/ extract_block_diagrams
    \/ extract_usecase_diagrams
    \/ extract_activity_diagrams
    \/ extract_class_diagrams
    \/ extract_state_machine_diagrams
    \/ extract_package_diagrams
    \/ extract_parametric_diagrams
    \/ extract_tables

\* ------------------------------------------------- sequence extractor
\* A context that every activation bar starts anew, as a lifeline does
EffectiveNearestContainer(node_xmi_type, node_id, current_lifeline_id) ==
    IF node_xmi_type \in { Trufun(<<"LifelineNode_SD">>), Trufun(<<"InvocationSpecificationNode">>),
                           Trufun(<<"ExecutionSpecificationNode">>) }
    THEN node_id ELSE current_lifeline_id

\* lines 1153-1160: the lifeline a node belongs to; a lifeline node starts a
\* new context, every other node inherits the one of the call
effective_lifeline_id(node_xmi_type, node_id, current_lifeline_id) ==
    IF node_xmi_type = Trufun(<<"LifelineNode_SD">>) THEN node_id ELSE current_lifeline_id

\* lines 1161-1173
LifelineName(n, node_id, node_name) ==
    IF ~Truthy(node_name) /\ Truthy(n.owner)
    THEN LET owner_name == Get(model_elements_by_id, n.owner, NoneVal) IN
         IF Truthy(owner_name) /\ ~Contains(owner_name, " (type)")
         THEN <<":">> \o owner_name
         ELSE <<"unnamed lifeline (">> \o n.owner \o <<")">>
    ELSE IF ~Truthy(node_name) THEN <<"unnamed lifeline (">> \o node_id \o <<")">>
    ELSE node_name

\* "X (<name or id>)"
NameOrId(prefix, node_name, node_id) ==
    <<prefix>> \o (IF Truthy(node_name) THEN node_name ELSE node_id) \o <<")">>

\* lines 1140-1245: the loop over findall("./nodes") of the node at position
\* parent of c, from position q on; acc holds diagram_node_map (table) and
\* event_occurrence_to_lifeline_id_map (lifelines).
RECURSIVE collect_seq_nodes_recursive(_, _, _, _, _)
collect_seq_nodes_recursive(c, parent, q, current_lifeline_id, acc) ==
    IF q > Len(c.nodes) \/ acc.raised # "" THEN acc
    ELSE IF c.nodes[q].parent # parent
    THEN collect_seq_nodes_recursive(c, parent, q + 1, current_lifeline_id, acc)
    ELSE LET n == c.nodes[q]
             node_xmi_type == XmiAttr(n.xmiType)
             node_id == XmiAttr(n.id)
             node_name == Strip(Attr(n.name, <<>>))
             lifeline == effective_lifeline_id(node_xmi_type, node_id, current_lifeline_id)
             named(display_name) == [acc EXCEPT !.table = Put(@, node_id, display_name)]
             after ==
                IF ~Truthy(node_id) THEN acc
                ELSE IF node_xmi_type = Trufun(<<"LifelineNode_SD">>)
                THEN collect_seq_nodes_recursive(c, q, 1, lifeline,
                        named(LifelineName(n, node_id, node_name)))
                ELSE IF node_xmi_type \in { Trufun(<<"InvocationSpecificationNode">>),
                                            Trufun(<<"ExecutionSpecificationNode">>) }
                THEN collect_seq_nodes_recursive(c, q, 1, lifeline,
                        named(IF ~Truthy(node_name)
                              THEN <<"activation (">> \o node_id \o <<")">> ELSE node_name))
                ELSE IF node_xmi_type = Trufun(<<"EventOccurrenceNode">>)
                THEN [acc EXCEPT !.table = Put(@, node_id, <<"event (">> \o node_id \o <<")">>),
                                 !.lifelines = IF Truthy(lifeline)
                                               THEN Put(@, node_id, lifeline) ELSE @]
                ELSE IF node_xmi_type = Trufun(<<"StateInvariantNode">>)
                THEN named(NameOrId("state invariant (", node_name, node_id))
                ELSE IF node_xmi_type = Trufun(<<"InteractionOccurrenceNode">>)
                THEN named(NameOrId("interaction use (", node_name, node_id))
                ELSE IF node_xmi_type = Trufun(<<"CombinedFragmentNode">>)
                THEN collect_seq_nodes_recursive(c, q, 1, lifeline,
                        named(StripChars(<<"combined fragment (UNKNOWN TYPE)", ":", " ">>
                                         \o node_name, {":", " "})))
                ELSE IF node_xmi_type = Trufun(<<"InteractionOperandNode">>)
                THEN collect_seq_nodes_recursive(c, q, 1, lifeline,
                        named(NameOrId("operand (", node_name, node_id)))
                ELSE IF node_xmi_type \in { Trufun(<<"MountingLinkNode">>),
                                            Trufun(<<"SplitterNode">>),
                                            <<"trufun", ":", "SubLabel">> }
                THEN acc
                ELSE IF node_xmi_type = NoneVal THEN [acc EXCEPT !.raised = "TypeError"]
                ELSE named(OtherNode(node_xmi_type, node_name, node_id))
         IN  collect_seq_nodes_recursive(c, parent, q + 1, current_lifeline_id, after)

\* ", ".join(details)
RECURSIVE Join(_)
Join(details) ==
    IF details = <<>> THEN <<>>
    ELSE IF Len(details) = 1 THEN details[1]
    ELSE details[1] \o <<", ">> \o Join(Tail(details))

\* str(x) inside an f-string, for an attribute value
Fmt(v) == IF v = NoneVal THEN <<"None">> ELSE v

\* lines 1345-1376: the label of a message, or the exception of .strip() on a
\* Name sub-label without a name
MessageLabel(conn) ==
    LET message_name == Strip(Attr(conn.name, <<"Unnamed Message">>))
        names == NameSubLabels(conn)
        others == SelectSeq(names, LAMBDA l : Strip(l.name) # message_name)
        message_label_details == [i \in DOMAIN others |-> Strip(others[i].name)]
    IN  IF \E i \in DOMAIN names : names[i].name = NoneVal
        THEN [raised |-> "AttributeError", label |-> <<>>]
        ELSE Label(IF message_label_details # <<>>
                   THEN message_name \o <<" (">> \o Join(message_label_details) \o <<")">>
                   ELSE message_name)

\* lines 1349-1361: event occurrence -> lifeline -> display name
LifelineOfEvent(maps, event_id) ==
    Get(maps.table, Get(maps.lifelines, event_id, NoneVal),
        <<"unknown lifeline (event: ">> \o Fmt(event_id) \o <<")">>)

\* lines 1333-1392: the loop over findall("./connections") of the i-th element
RECURSIVE MessageLoop(_, _, _, _)
MessageLoop(i, j, maps, acc) ==
    LET c == root[i] IN
    IF j > Len(ConnectionsOf(c)) THEN acc
    ELSE LET msg_conn == ConnectionsOf(c)[j]
             l == MessageLabel(msg_conn)
         IN  IF XmiAttr(msg_conn.xmiType) # Trufun(<<"MessageConnection_SD">>)
             THEN MessageLoop(i, j + 1, maps, acc)
             ELSE IF l.raised # "" THEN [acc EXCEPT !.raised = l.raised]
             ELSE MessageLoop(i, j + 1, maps,
                    [acc EXCEPT
                       !.triples = Append(@, << LifelineOfEvent(maps, msg_conn.source), l.label,
                                                LifelineOfEvent(maps, msg_conn.target) >>),
                       !.origin = Append(@, [kind |-> "sequence", elem |-> i, conn |-> j])])

\* lines 1117-1128: find("./nodes[@xmi:type='trufun:TInteractionNode']"), as
\* a set of at most one position
InteractionNode(c) ==
    LET found == { q \in DOMAIN c.nodes :
                     c.nodes[q].parent = 0 /\
                     XmiAttr(c.nodes[q].xmiType) = Trufun(<<"InteractionNode">>) }
    IN  { q \in found : \A r \in found : q <= r }

\* lines 1102-1395: the loop 'for elem in self.root.iter()', from element i on.
\* The passes of lines 1252-1331 log and change nothing.
RECURSIVE SequenceLoop(_, _)
SequenceLoop(i, acc) ==
    IF i > Len(root) THEN acc
    ELSE IF ~IsSequenceDiagram(root[i]) THEN SequenceLoop(i + 1, acc)
    ELSE LET entered == [acc EXCEPT !.dispatched = @ \cup {<<"sequence", i>>}] IN
         IF InteractionNode(root[i]) = {} THEN SequenceLoop(i + 1, entered)
         ELSE LET interaction_node == CHOOSE q \in InteractionNode(root[i]) : TRUE
                  maps == collect_seq_nodes_recursive(root[i], interaction_node, 1, NoneVal,
                             [raised |-> "", table |-> EmptyMap, lifelines |-> EmptyMap])
              IN  IF maps.raised # "" THEN [entered EXCEPT !.raised = maps.raised]
                  ELSE LET after == MessageLoop(i, 1, maps, entered) IN
                       IF after.raised # "" THEN after ELSE SequenceLoop(i + 1, after)

\* parser.extract_sequence_diagrams(), called by a program on a loaded parser
\* in the place of parse_all
extract_sequence_diagrams ==
    LET r == SequenceLoop(1, [triples |-> triples, origin |-> origin,
                              dispatched |-> dispatched, raised |-> ""])
    IN  /\ pc = "requirement"
        /\ triples' = r.triples
        /\ origin' = r.origin
        /\ dispatched' = r.dispatched
        /\ error' = r.raised
        /\ pc' = IF r.raised # "" THEN "raised" ELSE "serialize"
        /\ UNCHANGED << callerVars, file_content, seed, root, namespaces, model_elements_by_id,
                        graph, label, calls, output, run, prevSeed, prevTriples,
                        prevOutput >>

\* ------------------------------------------------------------- serializer
HashRange == 256

Alphabet ==
    << "R1", "R2", "Engine", "Wheel", "Drive", "Driver", "Start", "Idle", "P1", "P2",
       "c", "p", "pump", "1", "2", "3", "n1", "n2", "x", ")", "unknown node (ID: ",
       "unknown package (ID: ", "context block: ", "part: ", "port: ", "initial node",
       "initial state", "state: ", "constraint property: ", "parameter: " >>

ChunkCode(c) ==
    IF \E i \in DOMAIN Alphabet : Alphabet[i] = c
    THEN CHOOSE i \in DOMAIN Alphabet : Alphabet[i] = c
    ELSE 0

RECURSIVE Mix(_, _, _)
Mix(sd, s, h) ==
    IF s = <<>> THEN h
    ELSE Mix(sd, Tail(s), (h * 31 + ChunkCode(Head(s)) * (sd + 1) + sd) % HashRange)

\* The builtin hash() of a str: a keyed hash, the key being drawn when the
\* interpreter starts (PYTHONHASHSEED unset), the result a signed integer.
hash(s) == Mix(seed, s, 7) - (HashRange \div 2)

Digits == << "0", "1", "2", "3", "4", "5", "6", "7", "8", "9" >>

RECURSIVE NatToStr(_)
NatToStr(n) ==
    IF n < 10 THEN << Digits[n + 1] >>
    ELSE NatToStr(n \div 10) \o << Digits[(n % 10) + 1] >>

\* str() of an int
str(n) == IF n < 0 THEN <<"-">> \o NatToStr(0 - n) ELSE NatToStr(n)

Entity(l, name) ==
    [label |-> l, id |-> str(hash(name)), properties |-> [name |-> name]]

\* A serializer that numbers the entity mentions instead of hashing the names
GraphJsonFreshIds(ts, l) ==
    [triples |-> [i \in 1..Len(ts) |->
        [head |-> [label |-> l, id |-> str(2 * i), properties |-> [name |-> ts[i][1]]],
         relation |-> [type |-> ts[i][2], properties |-> EmptyMap],
         tail |-> [label |-> l, id |-> str(2 * i + 1), properties |-> [name |-> ts[i][3]]]]]]

\* A serializer that ignores its label argument and writes the default
GraphJsonDefaultLabel(ts, l) ==
    [triples |-> [i \in 1..Len(ts) |->
        [head |-> Entity("tmx", ts[i][1]),
         relation |-> [type |-> ts[i][2], properties |-> EmptyMap],
         tail |-> Entity("tmx", ts[i][3])]]]

\* lines 1845-1865
GraphJson(ts, l) ==
    [triples |-> [i \in 1..Len(ts) |->
        [head |-> Entity(l, ts[i][1]),
         relation |-> [type |-> ts[i][2], properties |-> EmptyMap],
         tail |-> Entity(l, ts[i][3])]]]

\* the label argument; "tmx" is the default
Labels == {"tmx", "req"}

\* parser.triples_to_graph_json(label); nothing stops a caller from calling it
\* again before using the result
triples_to_graph_json ==
    /\ pc \in {"serialize", "write"}
    /\ calls < MaxCalls
    /\ \E l \in Labels :
          /\ graph' = GraphJson(triples, l)
          /\ label' = l
    /\ calls' = calls + 1
    /\ pc' = "write"
    /\ UNCHANGED << callerVars, file_content, seed, root, namespaces, model_elements_by_id, triples,
                    origin, dispatched, output, error, run, prevSeed, prevTriples,
                    prevOutput >>

\* utils.py lines 73-74: json.dump(graph, f)
write_output ==
    /\ pc = "write"
    /\ output' = graph
    /\ pc' = "done"
    /\ UNCHANGED << callerVars, file_content, seed, root, namespaces, model_elements_by_id, triples,
                    origin, dispatched, graph, label, calls, error, run, prevSeed,
                    prevTriples, prevOutput >>

\* A second process is started on the same text: a new interpreter, a new hash
\* seed, a new parser.  The first run's triple list and output file are kept
\* for comparison.
rerun ==
    /\ pc \in {"done", "raised"}
    /\ run = 1
    /\ run' = 2
    /\ prevSeed' = seed
    /\ prevTriples' = triples
    /\ prevOutput' = output
    /\ seed' \in Seeds
    /\ pc' = "start"
    /\ root' = NoneVal
    /\ namespaces' = EmptyMap
    /\ model_elements_by_id' = EmptyMap
    /\ triples' = <<>>
    /\ origin' = <<>>
    /\ dispatched' = {}
    /\ graph' = NoDocument
    /\ label' = ""
    /\ calls' = 0
    /\ output' = NoDocument
    /\ error' = ""
    /\ UNCHANGED << callerVars, file_content >>

Next == load_xml \/ parse_all \/ triples_to_graph_json \/ write_output

Spec == Init /\ [][Next]_vars

InitRerun == InitWith(Documents(MaxRerunDiagrams))

NextRerun == Next \/ rerun

SpecRerun == InitRerun /\ [][NextRerun]_vars

\* An element that no extractor's test accepts (lines 115-118, 209-212, 321,
\* 410-414, 507-511, 704-708, 871-876, 1106-1111, 1413-1415, 1529-1535), read
\* off the element's tag, stereotype and xmi:type.
Unmatched(c) ==
    \/ c.tag # "contents"
    \/ /\ c.stereotype \notin { <<"SysmlRequirementDiagram">>, <<"SysmlInternalBlockDiagram">>,
                                <<"SysmlBlockDiagram">>, <<"SysMlPackageDiagram">> }
       /\ c.xmiType \notin { Trufun(<<"UsecaseDiagram">>), Trufun(<<"ActivityDiagram">>),
                             Trufun(<<"ClassDiagram">>) }
       /\ ~(c.stereotype = <<"SysMLStateDiagram">> /\ c.xmiType = Trufun(<<"StateMachineDiagram">>))
       /\ ~(c.stereotype = <<"SysMLSequenceDiagram">> /\ c.xmiType = Trufun(<<"SequenceDiagram">>))
       /\ ~(c.stereotype = <<"SysmlParameterDiagram">>
            /\ c.xmiType = Trufun(<<"CompositeStructureDiagram">>))

\* A second process is started on the text with the unmatched elements taken
\* out; the first run's triple list and output file are kept for comparison.
rerun_without_unmatched ==
    /\ pc \in {"done", "raised"}
    /\ run = 1
    /\ run' = 2
    /\ file_content' = [file_content EXCEPT !.elements = SelectSeq(@, LAMBDA c : ~Unmatched(c))]
    /\ prevSeed' = seed
    /\ prevTriples' = triples
    /\ prevOutput' = output
    /\ seed' \in Seeds
    /\ pc' = "start"
    /\ root' = NoneVal
    /\ namespaces' = EmptyMap
    /\ model_elements_by_id' = EmptyMap
    /\ triples' = <<>>
    /\ origin' = <<>>
    /\ dispatched' = {}
    /\ graph' = NoDocument
    /\ label' = ""
    /\ calls' = 0
    /\ output' = NoDocument
    /\ error' = ""
    /\ UNCHANGED callerVars

InitSkip == InitWith(WellFormedDocuments(SkipTemplates, MaxDiagrams))

NextSkip == Next \/ rerun_without_unmatched

SpecSkip == InitSkip /\ [][NextSkip]_vars

InitRelation == InitWith(WellFormedDocuments(RelationTemplates, MaxRerunDiagrams))

SpecRelation == InitRelation /\ [][Next]_vars

InitStateMachine == InitWith(WellFormedDocuments(StateMachineTemplates, MaxRerunDiagrams))

SpecStateMachine == InitStateMachine /\ [][Next]_vars

InitParametric == InitWith(WellFormedDocuments(BindingTemplates, MaxRerunDiagrams))

SpecParametric == InitParametric /\ [][Next]_vars

InitSequence == InitWith(WellFormedDocuments(SequenceTemplates, MaxRerunDiagrams))

NextSequence == Next \/ extract_sequence_diagrams

SpecSequence == InitSequence /\ [][NextSequence]_vars

InitPackage == InitWith(WellFormedDocuments(ImportTemplates, MaxRerunDiagrams))

SpecPackage == InitPackage /\ [][Next]_vars

InitOtherNode == InitWith(WellFormedDocuments(OtherNodeTemplates, MaxRerunDiagrams))

SpecOtherNode == InitOtherNode /\ [][Next]_vars

InitIndex == InitWith(WellFormedDocuments(IndexTemplates, MaxRerunDiagrams))

SpecIndex == InitIndex /\ [][Next]_vars

\* The constructor alone, on documents that differ in their declarations.
InitLoad ==
    InitWith(NamespaceDocuments({ ReqTemplate("both"), IbdTemplate, ClassTemplate("both") },
                                MaxRerunDiagrams))

SpecLoad == InitLoad /\ [][load_xml]_vars

InitCross == InitWith(CrossDocuments)

SpecCross == InitCross /\ [][Next]_vars

InitNested == InitWith(WellFormedDocuments(NestedTemplates, MaxRerunDiagrams))

SpecNested == InitNested /\ [][NextSequence]_vars

InitOwner == InitWith(WellFormedDocuments(OwnerTemplates, MaxRerunDiagrams))

SpecOwner == InitOwner /\ [][NextSequence]_vars

InitLacking == InitWith(WellFormedDocuments(LackingTemplates, MaxRerunDiagrams))

SpecLacking == InitLacking /\ [][Next]_vars

\* ------------------------------------------------------------- safe_name
MaxNameLen == 4

\* Characters of a label.  "U+00B2" is the superscript two and "U+00BD" the
\* vulgar fraction one half: the pattern \w of a str regex matches both, the
\* pattern \d matches neither.
NameChars == { "a", "7", "_", "-", "U+00B2", "U+00BD" }

\* re pattern \w
IsWord(c) == c \in { "a", "7", "_", "U+00B2", "U+00BD" }

\* re pattern \d
IsDecimal(c) == c = "7"

\* re.sub(r"_+", "_", s)
RECURSIVE Collapse(_)
Collapse(s) ==
    IF Len(s) < 2 THEN s
    ELSE IF s[1] = "_" /\ s[2] = "_" THEN Collapse(Tail(s))
    ELSE <<s[1]>> \o Collapse(Tail(s))

\* graph.py lines 17-33
safe_name(s) ==
    LET replaced == [i \in DOMAIN s |-> IF IsWord(s[i]) THEN s[i] ELSE "_"]
        collapsed == Collapse(replaced)
        stripped == RStripChars(LStripChars(collapsed, {"_"}), {"_"})
    IN  IF stripped # <<>> /\ IsDecimal(stripped[1]) THEN <<"_">> \o stripped ELSE stripped

\* the strings of at most n characters
NamesUpTo(n) == UNION { [1..m -> NameChars] : m \in 0..n }

\* no parser process has been started
ParserIdle ==
    /\ file_content = [wellFormed |-> FALSE, nsDecls |-> <<>>, elements |-> <<>>]
    /\ pc = "none"
    /\ seed = 0
    /\ root = NoneVal
    /\ namespaces = EmptyMap
    /\ model_elements_by_id = EmptyMap
    /\ triples = <<>>
    /\ origin = <<>>
    /\ dispatched = {}
    /\ graph = NoDocument
    /\ label = ""
    /\ calls = 0
    /\ output = NoDocument
    /\ error = ""
    /\ run = 1
    /\ prevSeed = 0
    /\ prevTriples = <<>>
    /\ prevOutput = NoDocument

InitSafeName ==
    /\ ParserIdle
    /\ raw_name \in NamesUpTo(MaxNameLen)
    /\ safe = NoneVal
    /\ applications = 0
    /\ StoreIdle
    /\ ExtractIdle

\* safe_name(name)
ApplySafeName ==
    /\ applications = 0
    /\ safe' = safe_name(raw_name)
    /\ applications' = 1
    /\ UNCHANGED << parserVars, raw_name, document, nodes, edges, imports, import_error,
                    content, paragraphs, tasks, llm_results, output_triples, extract_pc >>

\* safe_name applied to its own result
ApplySafeNameAgain ==
    /\ applications = 1
    /\ safe' = safe_name(safe)
    /\ applications' = 2
    /\ UNCHANGED << parserVars, raw_name, document, nodes, edges, imports, import_error,
                    content, paragraphs, tasks, llm_results, output_triples, extract_pc >>

NextSafeName == ApplySafeName \/ ApplySafeNameAgain

SpecSafeName == InitSafeName /\ [][NextSafeName]_vars

\* -------------------------------------------------------- import_triples
MaxTriples == 2

\* The head or the tail of a triple; properties 0 stands for no "properties" key, another
\* number v for {"k": v}.
TripleEnd(lbl, id, v) == [label |-> lbl, id |-> id, properties |-> v]

\* The triples of a document: heads of two labels that safe_name maps to one,
\* and relation types likewise.
TripleValues ==
    { [head |-> TripleEnd(hl, hid, hv), relation |-> [type |-> ty, properties |-> 0],
       tail |-> TripleEnd(<<"a">>, tid, 0)] :
        hl \in { <<"a">>, <<"a", "-">> }, hid \in 1..2, hv \in 1..2,
        ty \in { <<"7">>, <<"-", "7">> }, tid \in 1..2 }

\* {"triples": [...]} with at most n triples, and a dict without that key
ImportDocuments(n) ==
    { [hasTriples |-> FALSE, triples |-> <<>>] }
    \cup { [hasTriples |-> TRUE, triples |-> ts] : ts \in UNION { [1..m -> TripleValues] : m \in 0..n } }

\* the positions of the nodes that (x:lbl {id: id}) matches
Matching(ns, lbl, id) == { i \in DOMAIN ns : ns[i].label = lbl /\ ns[i].id = id }

\* SET x += properties
SetProperties(old, v) == IF v = 0 THEN old ELSE v

\* MERGE (x:lbl {id: id}) SET x += properties
MergeNode(ns, lbl, id, v) ==
    LET merged == IF Matching(ns, lbl, id) = {}
                  THEN Append(ns, [label |-> lbl, id |-> id, properties |-> 0])
                  ELSE ns
    IN  [i \in DOMAIN merged |->
            IF i \in Matching(merged, lbl, id)
            THEN [merged[i] EXCEPT !.properties = SetProperties(@, v)]
            ELSE merged[i]]

\* MATCH (h:hl {id: hid}), (t:tl {id: tid}) MERGE (h)-[r:ty]->(t) SET r += properties;
\* es maps (h, ty, t) to the number of such relationships and their properties
MergeRelation(ns, es, hl, hid, tl, tid, ty, v) ==
    LET pairs == { <<i, ty, j>> : i \in Matching(ns, hl, hid), j \in Matching(ns, tl, tid) } IN
    [e \in DOMAIN es \cup pairs |->
        IF e \in pairs
        THEN [count |-> IF e \in DOMAIN es THEN es[e].count ELSE 1,
              properties |-> SetProperties(IF e \in DOMAIN es THEN es[e].properties ELSE 0, v)]
        ELSE es[e]]

\* lines 76-121: the loop over triples["triples"], from position q on
RECURSIVE ImportLoop(_, _, _)
ImportLoop(ts, q, st) ==
    IF q > Len(ts) THEN st
    ELSE LET head == ts[q].head
             relation == ts[q].relation
             tail == ts[q].tail
             head_label == safe_name(head.label)
             tail_label == safe_name(tail.label)
             rel_type == safe_name(relation.type)
             with_head == MergeNode(st.nodes, head_label, head.id, head.properties)
             with_tail == MergeNode(with_head, tail_label, tail.id, tail.properties)
         IN  ImportLoop(ts, q + 1,
                [nodes |-> with_tail,
                 edges |-> MergeRelation(with_tail, st.edges, head_label, head.id,
                                         tail_label, tail.id, rel_type, relation.properties)])

InitImport ==
    /\ ParserIdle
    /\ raw_name = <<>>
    /\ safe = NoneVal
    /\ applications = 0
    /\ document \in ImportDocuments(MaxTriples)
    /\ nodes = <<>>
    /\ edges = EmptyMap
    /\ imports = 0
    /\ import_error = ""
    /\ ExtractIdle

\* Neo4jGraphController.import_triples(document).  Line 75 hands the value of
\* session.begin_transaction() to 'async with' without awaiting it.  The
\* driver is not part of the source: where that value supports the
\* asynchronous context manager protocol the loop runs in one transaction
\* that is committed when the loop ends, and where it is a coroutine (the
\* method is a coroutine function of AsyncSession) 'async with' raises
\* TypeError before the first query.
import_triples ==
    /\ imports < 2
    /\ import_error = ""
    /\ \E is_context_manager \in BOOLEAN :
          IF ~document.hasTriples
          THEN /\ import_error' = "ValueError"
               /\ UNCHANGED << nodes, edges, imports >>
          ELSE IF ~is_context_manager
          THEN /\ import_error' = "TypeError"
               /\ UNCHANGED << nodes, edges, imports >>
          ELSE LET st == ImportLoop(document.triples, 1, [nodes |-> nodes, edges |-> edges]) IN
               /\ nodes' = st.nodes
               /\ edges' = st.edges
               /\ imports' = imports + 1
               /\ import_error' = ""
    /\ UNCHANGED << parserVars, raw_name, safe, applications, document, content, paragraphs,
                    tasks, llm_results, output_triples, extract_pc >>

SpecImport == InitImport /\ [][import_triples]_vars

\* --------------------------------------------- extract_requirement_triples
MaxLines == 8

\* the defaults of extract_requirement_triples
window_size == 4
step == 3

\* a line of white space and a line of text with a trailing blank
Lines == { <<" ">>, <<"p", " ">> }

\* the texts of at most n lines
Contents(n) == UNION { [1..m -> Lines] : m \in 0..n }

\* triple.py lines 22-24: the stripped lines that are not empty, each with
\* the number of its line
split_paragraphs(c) ==
    LET kept == SelectSeq([i \in DOMAIN c |-> [line |-> i, text |-> Strip(c[i])]],
                          LAMBDA p : p.text # <<>>)
    IN  kept

\* lines 70-90: total_windows and the loop that builds the tasks; start_idx
\* counts from 0 as in the source
total_windows(ps) == ((Len(ps) - window_size) \div step) + 1

\* paragraphs[start_idx : start_idx + window_size]
Window(ps, start_idx) ==
    SubSeq(ps, start_idx + 1, IF start_idx + window_size > Len(ps) THEN Len(ps)
                              ELSE start_idx + window_size)

RECURSIVE TaskLoop(_, _, _)
TaskLoop(ps, i, acc) ==
    IF i >= total_windows(ps) THEN acc
    ELSE LET start_idx == i * step
             window_paragraphs == Window(ps, start_idx)
         IN  IF Len(window_paragraphs) < window_size THEN acc
             ELSE TaskLoop(ps, i + 1,
                           Append(acc, [start_idx |-> start_idx, window |-> window_paragraphs]))

\* lines 94-103: the loop over the results; a result that json.loads rejects
\* is skipped, another one gives the triples of its window
RECURSIVE ResultLoop(_, _, _)
ResultLoop(rs, i, acc) ==
    IF i > Len(rs) THEN acc
    ELSE IF rs[i] = "not json" THEN ResultLoop(rs, i + 1, acc)
    ELSE ResultLoop(rs, i + 1, acc \o << [window |-> i] >>)

InitExtract ==
    /\ ParserIdle
    /\ raw_name = <<>>
    /\ safe = NoneVal
    /\ applications = 0
    /\ StoreIdle
    /\ content \in Contents(MaxLines)
    /\ paragraphs = <<>>
    /\ tasks = <<>>
    /\ llm_results = <<>>
    /\ output_triples = <<>>
    /\ extract_pc = "start"

\* lines 66-90: up to 'await asyncio.gather(*tasks)'
build_tasks ==
    /\ extract_pc = "start"
    /\ paragraphs' = split_paragraphs(content)
    /\ tasks' = TaskLoop(split_paragraphs(content), 0, <<>>)
    /\ extract_pc' = "gather"
    /\ UNCHANGED << parserVars, raw_name, safe, applications, document, nodes, edges,
                    imports, import_error, content, llm_results, output_triples >>

\* lines 92-106: the LLM answers each window with JSON or with other text
collect_results ==
    /\ extract_pc = "gather"
    /\ \E rs \in [DOMAIN tasks -> {"json", "not json"}] :
          /\ llm_results' = rs
          /\ output_triples' = ResultLoop(rs, 1, <<>>)
    /\ extract_pc' = "returned"
    /\ UNCHANGED << parserVars, raw_name, safe, applications, document, nodes, edges,
                    imports, import_error, content, paragraphs, tasks >>

extract_requirement_triples == build_tasks \/ collect_results

SpecExtract == InitExtract /\ [][extract_requirement_triples]_vars

\* ------------------------------------------------------------------ claims
\* parse_all has returned
Parsed == pc \in {"serialize", "write", "done"}

\* positions of the triple list that come from connection j of element i
TriplesOf(i, j) == { p \in DOMAIN origin : origin[p].elem = i /\ origin[p].conn = j }

\* the extractors that recognise element i and whose guard admits connection j
Admitting(i, j) ==
    { k \in Kinds \ {"sequence"} :
        Recognises(k, root[i]) /\ Extracted(k, root[i].connections[j]) }

Resolvable(k, i, id) ==
    node_id_to_name(k, root[i]).raised = "" /\ id \in DOMAIN node_id_to_name(k, root[i]).table

\* C1: after parse_all, a connection of a recognised diagram whose source and
\* target both have entries in the diagram's node-name table has exactly one
\* triple in the list, with the table's names as subject and object.
C1_OneTriplePerResolvedConnection ==
    Parsed =>
      \A i \in DOMAIN root : \A j \in DOMAIN root[i].connections : \A k \in Admitting(i, j) :
        LET conn == root[i].connections[j]
            tbl == node_id_to_name(k, root[i]).table
        IN  (Resolvable(k, i, conn.source) /\ Resolvable(k, i, conn.target)) =>
              /\ Cardinality(TriplesOf(i, j)) = 1
              /\ \A p \in TriplesOf(i, j) :
                    triples[p][1] = tbl[conn.source] /\ triples[p][3] = tbl[conn.target]

\* C2: a connection with both IDs of which one has no entry in the naming table
\* raises nothing and yields a triple whose unresolved side is
\* 'unknown node (ID: <id>)' in every diagram kind and whose other side is the
\* resolved name.
C2_UnresolvedSideIsUnknownNode ==
    Parsed =>
      \A i \in DOMAIN root : \A j \in DOMAIN root[i].connections : \A k \in Admitting(i, j) :
        LET conn == root[i].connections[j]
            tbl == node_id_to_name(k, root[i]).table
        IN  /\ (~Resolvable(k, i, conn.source) /\ Resolvable(k, i, conn.target)) =>
                 \E p \in TriplesOf(i, j) :
                    /\ origin[p].kind = k
                    /\ triples[p][1] = UnknownNode(conn.source)
                    /\ triples[p][3] = tbl[conn.target]
            /\ (Resolvable(k, i, conn.source) /\ ~Resolvable(k, i, conn.target)) =>
                 \E p \in TriplesOf(i, j) :
                    /\ origin[p].kind = k
                    /\ triples[p][1] = tbl[conn.source]
                    /\ triples[p][3] = UnknownNode(conn.target)

\* C3: on a well-formed document, construction, parse_all and
\* triples_to_graph_json never raise.
C3_WellFormedNeverRaises == WellFormed(file_content) => pc # "raised"

\* C4: on text that is not well-formed XML the constructor fails in load_xml
\* with a parse error: no tree, no index, no triple, no graph, no output file.
C4_MalformedAbortsWithoutOutput ==
    ~file_content.wellFormed =>
        /\ pc \in {"start", "raised"}
        /\ pc = "raised" => error = "ParseError"
        /\ root = NoneVal
        /\ model_elements_by_id = EmptyMap
        /\ triples = <<>>
        /\ dispatched = {}
        /\ graph = NoDocument
        /\ output = NoDocument

C4_Witness == ~file_content.wellFormed /\ pc = "raised" /\ file_content.elements # <<>>

Entities(g) ==
    { g.triples[i].head : i \in DOMAIN g.triples } \cup { g.triples[i].tail : i \in DOMAIN g.triples }

C7_IdStableAcrossRuns ==
    (run = 2 /\ pc = "done" /\ prevOutput # NoDocument) =>
        /\ \A e1 \in Entities(output), e2 \in Entities(prevOutput) :
              e1.properties.name = e2.properties.name => e1.id = e2.id
        /\ [i \in DOMAIN output.triples |-> output.triples[i].head.id]
             = [i \in DOMAIN prevOutput.triples |-> prevOutput.triples[i].head.id]

\* C8: the returned document has one record per triple, in list order, with
\* head name = subject, tail name = object, relation type = label of the triple,
\* no relation properties and the supplied label on both entities; the call
\* leaves the triple list as it was, and a second call with the same label
\* returns an equal document.
C8_RecordShape ==
    graph # NoDocument =>
        /\ DOMAIN graph = {"triples"}
        /\ Len(graph.triples) = Len(triples)
        /\ \A i \in DOMAIN triples :
              /\ graph.triples[i].head.properties.name = triples[i][1]
              /\ graph.triples[i].relation.type = triples[i][2]
              /\ graph.triples[i].tail.properties.name = triples[i][3]
              /\ graph.triples[i].relation.properties = EmptyMap
              /\ graph.triples[i].head.label = label
              /\ graph.triples[i].tail.label = label

C8_CallKeepsList ==
    calls' = calls + 1 =>
        /\ triples' = triples
        /\ (calls >= 1 /\ label' = label) => graph' = graph

\* C8: in every state the document has the record shape above, and every call
\* of triples_to_graph_json keeps the triple list and, with the label of the
\* call before, returns the document of the call before.
C8_OneRecordPerTriple == [](C8_RecordShape) /\ [][C8_CallKeepsList]_vars

C8_Witness ==
    calls = 2 /\ Len(triples) >= 2 /\ label = "req"
    /\ triples[1] # triples[2]

\* C9: parse_all hands every element that the discriminator of one of the ten
\* kinds recognises to that kind's extractor; a sequence diagram with a message
\* between two lifelines contributes a triple.
C9_EveryKindDispatched ==
    Parsed =>
      \A i \in DOMAIN root :
        /\ \A k \in Kinds : Recognises(k, root[i]) => <<k, i>> \in dispatched
        /\ (IsSequenceDiagram(root[i]) /\
            \E j \in DOMAIN root[i].connections :
                XmiAttr(root[i].connections[j].xmiType) = Trufun(<<"MessageConnection_SD">>))
             => \E p \in DOMAIN origin : origin[p].elem = i

\* C10: every element is entered by at most one extractor during parse_all.
C10_AtMostOneExtractor ==
    \A i \in 1..MaxDiagrams + 1 :
        Cardinality({ k \in Kinds : <<k, i>> \in dispatched }) <= 1

C12_TriplesInDocumentOrder ==
    Parsed =>
      \A p \in DOMAIN origin, q \in DOMAIN origin :
         (\/ origin[p].elem < origin[q].elem
          \/ origin[p].elem = origin[q].elem /\ origin[p].conn < origin[q].conn)
         => p < q

\* the connection a triple comes from
ConnOf(p) == root[origin[p].elem].connections[origin[p].conn]

\* C13: in a requirement diagram a connection stereotyped <<derive>> is labelled
\* "Derive", whatever its type attribute; with nodes R1 and R2 the triple is
\* ("R1", "Derive", "R2").
C13_RequirementStereotypeLabel ==
    /\ \A p \in DOMAIN origin :
        (origin[p].kind = "requirement" /\ ConnOf(p).stereotype = <<"<", "<", "derive", ">", ">">>)
        => triples[p] = << <<"R1">>, <<"Derive">>, <<"R2">> >>
    /\ Parsed =>
          \A i \in DOMAIN root :
             (/\ root[i].tag = "contents" /\ root[i].stereotype = <<"SysmlRequirementDiagram">>
              /\ root[i].connections[1].stereotype = <<"<", "<", "derive", ">", ">">>)
             => Cardinality({ p \in DOMAIN origin : origin[p].elem = i }) = 1

C13_Witness ==
    \E p \in DOMAIN origin :
        /\ origin[p].kind = "requirement"
        /\ ConnOf(p).stereotype = <<"<", "<", "derive", ">", ">">>
        /\ Truthy(ConnOf(p).type)
        /\ triples[p][2] = <<"Derive">>

\* C14: every triple of a state-machine diagram is labelled "Transition",
\* whatever the name, stereotype, sub-labels and xmi:type of the connection; a
\* diagram of an initial state, a state Idle and one transition between them
\* yields exactly (initial state, Transition, state: Idle).
C14_TransitionLabel ==
    /\ \A p \in DOMAIN origin :
          origin[p].kind = "state_machine" => triples[p][2] = <<"Transition">>
    /\ Parsed =>
          \A i \in DOMAIN root :
             (/\ root[i].tag = "contents" /\ root[i].stereotype = <<"SysMLStateDiagram">>
              /\ root[i].xmiType = Trufun(<<"StateMachineDiagram">>))
             => \A j \in DOMAIN root[i].connections :
                   (Truthy(root[i].connections[j].source) /\ Truthy(root[i].connections[j].target))
                   => /\ Cardinality(TriplesOf(i, j)) = 1
                      /\ \A p \in TriplesOf(i, j) :
                            triples[p] = << <<"initial state">>, <<"Transition">>,
                                            <<"state: ", "Idle">> >>

C14_Witness ==
    \E p \in DOMAIN origin :
        /\ origin[p].kind = "state_machine"
        /\ ConnOf(p).name = <<"go">>
        /\ ConnOf(p).subLabels # <<>>
        /\ triples[p] = << <<"initial state">>, <<"Transition">>, <<"state: ", "Idle">> >>

\* C15: in a parametric diagram a connection has one triple if it has a
\* source, a target and the palette_entry_id detail SysML.IBD.BindingConnector,
\* and no triple otherwise; no connection raises.
C15_BindingConnectorsOnly ==
    /\ pc # "raised"
    /\ Parsed =>
          \A i \in DOMAIN root :
             (/\ root[i].tag = "contents" /\ root[i].stereotype = <<"SysmlParameterDiagram">>
              /\ root[i].xmiType = Trufun(<<"CompositeStructureDiagram">>))
             => \A j \in DOMAIN root[i].connections :
                   LET conn == root[i].connections[j] IN
                   Cardinality(TriplesOf(i, j)) =
                      IF /\ Truthy(conn.source) /\ Truthy(conn.target)
                         /\ conn.paletteEntry = <<"SysML", ".", "IBD", ".", "BindingConnector">>
                      THEN 1 ELSE 0

\* one diagram with a binding connector and a connection that has both IDs
\* and no marker
C15_Witness ==
    /\ Parsed
    /\ \E i \in DOMAIN root :
          /\ Len(root[i].connections) = 2
          /\ TriplesOf(i, 1) # {}
          /\ TriplesOf(i, 2) = {}
          /\ Truthy(root[i].connections[2].source) /\ Truthy(root[i].connections[2].target)

\* the position in c of the node with the given ID
PosOf(c, id) == CHOOSE q \in DOMAIN c.nodes : c.nodes[q].id = id

\* the position of the lifeline that the node at position q is nested under
RECURSIVE OwningLifeline(_, _)
OwningLifeline(c, q) ==
    IF c.nodes[q].xmiType = Trufun(<<"LifelineNode_SD">>) THEN q
    ELSE OwningLifeline(c, c.nodes[q].parent)

\* the display name of the lifeline at position q of the i-th element: its
\* name, else ":" and the indexed name of its owner, else a placeholder
LifelineDisplay(i, q) ==
    LET n == root[i].nodes[q] IN
    IF Truthy(n.name) THEN n.name
    ELSE IF n.owner = Qualify(i, N1) THEN <<":", "Interaction">>
    ELSE <<"unnamed lifeline (">> \o (IF Truthy(n.owner) THEN n.owner ELSE n.id) \o <<")">>

\* C16: the subject and the object of a message's triple are the display names
\* of the lifelines that the source and the target event occurrence are nested
\* under, directly or through activation bars; every message has one triple.
C16_MessageEndsAreOwningLifelines ==
    /\ \A p \in DOMAIN origin :
          origin[p].kind = "sequence" =>
             LET i == origin[p].elem
                 c == root[i]
             IN  /\ triples[p][1] = LifelineDisplay(i, OwningLifeline(c, PosOf(c, ConnOf(p).source)))
                 /\ triples[p][3] = LifelineDisplay(i, OwningLifeline(c, PosOf(c, ConnOf(p).target)))
    /\ (Parsed /\ \E i \in DOMAIN root : <<"sequence", i>> \in dispatched) =>
          \A i \in DOMAIN root : \A j \in DOMAIN root[i].connections :
              Cardinality(TriplesOf(i, j)) = 1

\* a message from an event occurrence two activation bars deep to a lifeline
\* named after its owner
C16_Witness ==
    \E p \in DOMAIN origin :
        LET c == root[origin[p].elem]
            q == PosOf(c, ConnOf(p).source)
        IN  /\ origin[p].kind = "sequence"
            /\ c.nodes[c.nodes[q].parent].xmiType = Trufun(<<"ExecutionSpecificationNode">>)
            /\ triples[p] = << <<"L1">>, <<"msg">>, <<":", "Interaction">> >>

C18_StereotypeFirstInSixKinds ==
    \A p \in DOMAIN origin :
        (/\ origin[p].kind \in {"requirement", "block", "internal_block", "usecase", "activity",
                                "class"}
         /\ ConnOf(p).stereotype = <<"<", "<", "derive", ">", ">">>)
        => triples[p][2] = <<"Derive">>

\* C19: in every kind, a connection whose target is a node of the diagram
\* that carries an ID and a type without a naming rule has as object the
\* node's 'other node' name, 'other node (<type>): <name or ID>'.
C19_OtherNodeNamedInEveryKind ==
    \A p \in DOMAIN origin :
        LET c == root[origin[p].elem]
            n == c.nodes[PosOf(c, ConnOf(p).target)]
        IN  n.xmiType = Trufun(<<"HyperlinkNode">>) =>
               triples[p][3] = <<"other node (">> \o n.xmiType \o <<"): ">>
                               \o (IF Truthy(n.name) THEN n.name ELSE <<"ID ">> \o n.id)

\* the entry of the fallback chain for a node or a connection: its name, else
\* the stripped name of its stereotype label, else the name of its Name
\* sub-label, else its cleaned type and the type marker, else the placeholder
ChainEntry(el, sts) ==
    IF Truthy(el.name) THEN el.name
    ELSE IF sts # <<>> /\ Truthy(sts[1].name)
    THEN Strip(StripChars(sts[1].name, {"<", ">"}))
    ELSE IF \E l \in DOMAIN el.subLabels :
               el.subLabels[l].alias = <<"Name">> /\ el.subLabels[l].name # NoneVal
    THEN Strip(el.subLabels[CHOOSE l \in DOMAIN el.subLabels :
                               el.subLabels[l].alias = <<"Name">>].name)
    ELSE IF Truthy(el.xmiType)
    THEN SelectSeq(el.xmiType, LAMBDA x : x \notin {"trufun", ":", "T"}) \o <<" (type)">>
    ELSE <<"unknown element (ID: ">> \o el.id \o <<")">>

\* C20: once load_xml has run on a well-formed text, every node and every
\* connection that carries an ID has an entry in the index, the one of the
\* fallback chain.
C20_IndexFallbackChain ==
    (pc # "start" /\ WellFormed(file_content)) =>
        \A i \in DOMAIN root :
            /\ \A q \in DOMAIN root[i].nodes :
                  LET n == root[i].nodes[q] IN
                  Truthy(n.id) =>
                     /\ n.id \in DOMAIN model_elements_by_id
                     /\ model_elements_by_id[n.id] = ChainEntry(n, n.stereotypeNodes)
            /\ \A j \in DOMAIN root[i].connections :
                  LET conn == root[i].connections[j] IN
                  Truthy(conn.id) =>
                     /\ conn.id \in DOMAIN model_elements_by_id
                     /\ model_elements_by_id[conn.id] = ChainEntry(conn, <<>>)

\* the declarations of the text and the key of a declared prefix
Declared == { file_content.nsDecls[i] : i \in DOMAIN file_content.nsDecls }
KeyOf(prefix) == IF prefix = <<>> THEN <<"default">> ELSE prefix

\* C21: after load_xml the keys of the namespace map are the prefixes declared
\* in the document, at the root or deeper, with "default" for the unprefixed
\* namespace; each key maps to a URI declared for it, which is the declared
\* URI when the document declares one URI for the prefix.
C21_NamespaceMapHoldsEveryDeclaration ==
    pc = "requirement" =>
        /\ DOMAIN namespaces = { KeyOf(d[1]) : d \in Declared }
        /\ \A d \in Declared :
              /\ namespaces[KeyOf(d[1])] \in { e[2] : e \in { x \in Declared : x[1] = d[1] } }
              /\ (\A e \in Declared : e[1] = d[1] => e[2] = d[2]) => namespaces[KeyOf(d[1])] = d[2]

\* a default namespace and a prefix that are declared below the root only
C21_Witness ==
    /\ pc = "requirement"
    /\ \E d \in Declared : d[1] = <<>> /\ d[3] > 0
    /\ \E d \in Declared : d[1] = <<"uml">>
    /\ \A d \in Declared : d[1] = <<"uml">> => d[3] > 0 /\ d[2] = <<"http://uml">>
    /\ namespaces[<<"default">>] = <<"http://d">>
    /\ namespaces[<<"uml">>] = <<"http://uml">>

\* C22: once the constructor has returned, no step of an extractor, of
\* extract_tables or of the serializer changes the namespace map or the index.
C22_MapAndIndexWriteOnce ==
    [][pc # "start" =>
          /\ namespaces' = namespaces
          /\ model_elements_by_id' = model_elements_by_id]_vars

\* the end of a run that extracted a triple and serialized twice
C22_Witness ==
    /\ pc = "done" /\ calls = 2 /\ triples # <<>>
    /\ DOMAIN namespaces = { <<"xmi">>, <<"trufun">> }
    /\ Cardinality(DOMAIN model_elements_by_id) >= 6

\* C23: within a run, every step leaves the triple list it found as a prefix
\* of the list it hands on.
C23_TripleListAppendOnly ==
    [][run' = run =>
          /\ Len(triples') >= Len(triples)
          /\ SubSeq(triples', 1, Len(triples)) = triples]_vars

\* a list of two triples of two diagrams, the later one with an unresolved
\* subject
C23_Witness ==
    /\ pc = "done" /\ Len(triples) = 2
    /\ origin[1].elem # origin[2].elem
    /\ triples[2][1] = UnknownNode(AbsentId)

\* C24: the triple of a connection of diagram B whose source is the ID of a
\* node of diagram A only has as subject the placeholder of B's extractor for
\* that ID, not a name of A's table, and as object the name B's own table
\* gives its target.
C24_TablePerDiagram ==
    \A p \in DOMAIN origin :
        LET conn == ConnOf(p)
            here == root[origin[p].elem]
        IN  (/\ \A q \in DOMAIN here.nodes : here.nodes[q].id # conn.source
             /\ \E i \in DOMAIN root : \E q \in DOMAIN root[i].nodes :
                   root[i].nodes[q].id = conn.source)
            => /\ triples[p][1] = IF origin[p].kind = "package"
                                  THEN <<"unknown package (ID: ">> \o conn.source \o <<")">>
                                  ELSE <<"unknown node (ID: ">> \o conn.source \o <<")">>
               /\ triples[p][3] = BuildTable(origin[p].kind, here, 1, EmptyMap).table[conn.target]

\* two diagrams of one kind, both extracted, the second one's connection
\* starting at a node of the first
C24_Witness ==
    /\ Parsed /\ Len(triples) = 2
    /\ origin[1].kind = origin[2].kind
    /\ origin[1].elem = 1 /\ origin[2].elem = 2
    /\ \E q \in DOMAIN root[1].nodes : root[1].nodes[q].id = ConnOf(2).source
    /\ triples[2][1] = <<"unknown node (ID: ">> \o ConnOf(2).source \o <<")">>
    /\ triples[1][1] # triples[2][1]

\* the connections of c that are children of c and that extractor k reads
DirectAdmitted(k, c) ==
    { j \in DOMAIN c.connections :
        IF k = "sequence"
        THEN XmiAttr(c.connections[j].xmiType) = Trufun(<<"MessageConnection_SD">>)
        ELSE Extracted(k, c.connections[j]) }

\* C25: only the connections that are children of the diagram container
\* yield triples: after a run, each diagram an extractor entered has one
\* triple per child connection that the extractor admits, and a connection
\* nested in one of its nodes has none.
C25_OnlyChildConnectionsYieldTriples ==
    (Parsed /\ error = "") =>
        \A d \in dispatched :
            Cardinality({ p \in DOMAIN origin : origin[p].kind = d[1] /\ origin[p].elem = d[2] })
                = Cardinality(DirectAdmitted(d[1], root[d[2]]))

C25_Witness ==
    /\ Parsed
    /\ Len(triples) = 1
    /\ \E d \in dispatched :
          /\ d[1] = "internal_block"
          /\ origin[1].elem = d[2]
          /\ Len(root[d[2]].connections) = 1
          /\ root[d[2]].nestedConnections # <<>>
          /\ root[d[2]].nestedConnections[1].parent = 2
          /\ Extracted(d[1], root[d[2]].nestedConnections[1].conn)
          /\ triples[1][1] # triples[1][3]

\* part occurs in s
HasPart(s, part) ==
    \E i \in 1..(Len(s) - Len(part) + 1) : SubSeq(s, i, i + Len(part) - 1) = part

\* the node that names the object of the p-th triple: the target node of its
\* connection, in a sequence diagram the lifeline the target is nested under
ObjectNode(p) ==
    LET c == root[origin[p].elem]
        q == PosOf(c, c.connections[origin[p].conn].target)
    IN  IF origin[p].kind = "sequence" THEN c.nodes[OwningLifeline(c, q)] ELSE c.nodes[q]

\* the node has no name and an owner that the index resolves to a usable name
NamedByOwner(n) ==
    /\ ~Truthy(n.name)
    /\ Truthy(n.owner)
    /\ n.owner \in DOMAIN model_elements_by_id
    /\ Truthy(model_elements_by_id[n.owner])
    /\ ~Contains(model_elements_by_id[n.owner], " (type)")

\* C26: a node without a name whose owner the index resolves is named after
\* the indexed owner name, in every kind of diagram: the object of a triple
\* that ends at such a node holds the owner's name.
C26_UnnamedNodeNamedAfterOwner ==
    Parsed =>
        \A p \in DOMAIN origin :
            NamedByOwner(ObjectNode(p))
                => HasPart(triples[p][3], model_elements_by_id[ObjectNode(p).owner])

\* C26 for lifelines alone
C26_LifelineNamedAfterOwner ==
    Parsed =>
        \A p \in DOMAIN origin :
            (origin[p].kind = "sequence" /\ NamedByOwner(ObjectNode(p)))
                => triples[p][3] = <<":">> \o model_elements_by_id[ObjectNode(p).owner]

C26_LifelineWitness ==
    /\ Parsed
    /\ \E p \in DOMAIN origin :
          /\ origin[p].kind = "sequence"
          /\ NamedByOwner(ObjectNode(p))
          /\ triples[p][3] = <<":", "Diagram">>

\* the child connections of c that have a source and a target and, in a
\* parametric diagram, the binding marker
WithBothEnds(k, c) ==
    { j \in DOMAIN c.connections :
        /\ Truthy(c.connections[j].source)
        /\ Truthy(c.connections[j].target)
        /\ k = "parametric" =>
              c.connections[j].paletteEntry = <<"SysML", ".", "IBD", ".", "BindingConnector">> }

\* C27: a connection without a source or without a target yields no triple and
\* no error in the nine extractors of parse_all; each diagram contributes one
\* triple per child connection that has both, and that triple names the two
\* ends from the diagram's table as it would without the other connection.
C27_LackingEndpointSkipped ==
    /\ error = ""
    /\ Parsed =>
        \A d \in dispatched :
            LET k == d[1]
                i == d[2]
                here == { p \in DOMAIN origin : origin[p].kind = k /\ origin[p].elem = i }
                tbl == node_id_to_name(k, root[i]).table
            IN  /\ Cardinality(here) = Cardinality(WithBothEnds(k, root[i]))
                /\ \A j \in WithBothEnds(k, root[i]) :
                      \E p \in here :
                          /\ origin[p].conn = j
                          /\ triples[p][1] = Resolve(k, tbl, root[i].connections[j].source)
                          /\ triples[p][3] = Resolve(k, tbl, root[i].connections[j].target)

C27_Witness ==
    /\ pc = "done"
    /\ error = ""
    /\ Len(triples) = 1
    /\ Len(root) = 1
    /\ Len(root[1].connections) = 2
    /\ root[1].connections[1].source = <<>>
    /\ origin[1] = [kind |-> "class", elem |-> 1, conn |-> 2]

\* letters and digits: str.isalpha and str.isdigit; the fraction is neither
IsLetter(c) == c = "a"
IsDigit(c) == c \in { "7", "U+00B2" }

\* C28: for every string, safe_name returns a string of letters, digits and
\* underscores only, without two consecutive underscores, that does not start
\* with a digit; and applying safe_name to its result returns the result.
C28_SafeNameShapeAndIdempotence ==
    applications >= 1 =>
        /\ \A i \in DOMAIN safe : IsLetter(safe[i]) \/ IsDigit(safe[i]) \/ safe[i] = "_"
        /\ \A i \in 1..(Len(safe) - 1) : ~(safe[i] = "_" /\ safe[i + 1] = "_")
        /\ safe # <<>> => ~IsDigit(safe[1])
        /\ safe_name(safe) = safe

\* C28 without the part about letters and digits: the result has no two
\* consecutive underscores, does not start with a decimal digit, and
\* safe_name maps it to itself.
C28_CollapsedAndIdempotent ==
    /\ applications >= 1 =>
          /\ \A i \in 1..(Len(safe) - 1) : ~(safe[i] = "_" /\ safe[i + 1] = "_")
          /\ safe # <<>> => ~IsDecimal(safe[1])
          /\ safe_name(safe) = safe

C28_IdempotentWitness ==
    /\ applications = 2
    /\ raw_name = << "7", "-", "_" >>
    /\ safe = << "_", "7" >>

\* the (sanitised label, id) pairs among the heads and tails of the document
MentionedPairs ==
    UNION { { << safe_name(document.triples[q].head.label), document.triples[q].head.id >>,
              << safe_name(document.triples[q].tail.label), document.triples[q].tail.id >> } :
            q \in DOMAIN document.triples }

\* the store holds one node per mentioned pair, one relationship per
\* (head node, relation type, tail node), and each triple's relationship
\* joins the nodes of its two pairs
StoreHoldsDocument ==
    /\ { << nodes[i].label, nodes[i].id >> : i \in DOMAIN nodes } = MentionedPairs
    /\ Len(nodes) = Cardinality(MentionedPairs)
    /\ \A e \in DOMAIN edges : edges[e].count = 1
    /\ \A q \in DOMAIN document.triples :
          LET t == document.triples[q] IN
          \E e \in DOMAIN edges :
              /\ e[2] = safe_name(t.relation.type)
              /\ nodes[e[1]].label = safe_name(t.head.label) /\ nodes[e[1]].id = t.head.id
              /\ nodes[e[3]].label = safe_name(t.tail.label) /\ nodes[e[3]].id = t.tail.id

\* an import_triples call on a dict that has the key "triples" has ended
Imported == imports >= 1 \/ import_error = "TypeError"

C29_SecondImportChangesNothing ==
    Imported => (nodes' = nodes /\ edges' = edges)

\* C29: after import_triples on a document the store holds exactly one node
\* per distinct (sanitised label, id) pair among the heads and tails and one
\* relationship per (head node, relation type, tail node); two triples that
\* mention the same pair attach to the same node; importing the same document
\* a second time leaves the nodes and the relationships as they are.
C29_ImportMergesAndIsIdempotent ==
    [](Imported => StoreHoldsDocument) /\ [][C29_SecondImportChangesNothing]_vars

\* C29 for the calls that returned: what the MERGE statements do
C29_ReturnedImportMergesAndIsIdempotent ==
    [](imports >= 1 => StoreHoldsDocument) /\ [][C29_SecondImportChangesNothing]_vars

C29_ReturnedWitness ==
    /\ imports = 2
    /\ Len(document.triples) = 2
    /\ document.triples[1].head.label # document.triples[2].head.label
    /\ document.triples[1].head.properties # document.triples[2].head.properties
    /\ document.triples[1].relation.type # document.triples[2].relation.type
    /\ Len(nodes) = 2
    /\ Cardinality(DOMAIN edges) = 1

\* windows are runs of window_size consecutive paragraphs that start at
\* 0, step, 2 * step, ...
WindowsAreRuns ==
    \A k \in DOMAIN tasks :
        /\ tasks[k].start_idx = (k - 1) * step
        /\ Len(tasks[k].window) = window_size
        /\ tasks[k].window = SubSeq(paragraphs, tasks[k].start_idx + 1,
                                    tasks[k].start_idx + window_size)

\* every paragraph lies inside some window
EveryParagraphSubmitted ==
    \A q \in DOMAIN paragraphs :
        \E k \in DOMAIN tasks : \E j \in DOMAIN tasks[k].window :
            tasks[k].window[j].line = paragraphs[q].line

\* the triples of the windows whose result parsed are all in the output
ParseFailureKeepsOthers ==
    extract_pc = "returned" =>
        output_triples = SelectSeq([k \in DOMAIN llm_results |-> [window |-> k]],
                                   LAMBDA t : llm_results[t.window] = "json")

\* C30: with window_size 4 and step 3 every non-empty paragraph of the input
\* is submitted to the LLM in at least one window, the windows being runs of
\* exactly 4 consecutive paragraphs starting at 0, 3, 6, ...; a window whose
\* result is not JSON does not remove the triples of the other windows.
C30_EveryParagraphInAWindow ==
    extract_pc # "start" =>
        /\ WindowsAreRuns
        /\ EveryParagraphSubmitted
        /\ ParseFailureKeepsOthers

\* C30 without the coverage of every paragraph
C30_WindowsAndParseFailures ==
    extract_pc # "start" => (WindowsAreRuns /\ ParseFailureKeepsOthers)

C30_WindowsWitness ==
    /\ extract_pc = "returned"
    /\ Len(content) = 8
    /\ Len(paragraphs) = 7
    /\ Len(tasks) = 2
    /\ llm_results = << "not json", "json" >>
    /\ output_triples = << [window |-> 2] >>

====
